---------------------------- MODULE Spec2Model ----------------------------
(***************************************************************************)
(* A model of the handoff endpoint (src/app/api/handoff/route.ts) and of   *)
(* the chat widget wrapper (src/components/ChatKitPanel.tsx).  Each file   *)
(* holds two versions of its code, one after the other; the model follows  *)
(* the first of each (route.ts lines 1-269, ChatKitPanel.tsx lines 1-396), *)
(* the one with the ticket id and the CRM sync.                            *)
(*                                                                         *)
(* The fields of a request body are whatever JSON the caller sent: the     *)
(* cast to HandoffBody checks nothing, so a field may hold a number.       *)
(*                                                                         *)
(* Strings are sequences of symbols.  A symbol is a one-character string   *)
(* ("a", " ", "7") or an opaque word that holds no whitespace ("N/A").     *)
(* A JSON value is a record [t, v]: t is its JavaScript type and v is the  *)
(* string String(value) would give.                                        *)
(***************************************************************************)
EXTENDS Integers, Sequences, FiniteSets, TLC

VARIABLES
    env,        \* process.env of the server: which variables are set
    h,          \* the handoff requests in flight: request id -> handler state
    sn,         \* a call of splitName: its argument and its result
    panel,      \* ChatKitPanel: its React state, its refs and its window
    tools,      \* the widget's tool invocations, in the order they were made
    host,       \* around the panel: the page's callbacks, the requests the
                \* panel fetched, the build's configuration, the thread
    sessions,   \* the widget's calls of getClientSecret, in order
    ed          \* a call of extractErrorDetail: its arguments and its result

vars == <<env, h, sn, panel, tools, host, sessions, ed>>

-----------------------------------------------------------------------------
(* Bounds of the model *)

\* longest name given to splitName on its own
MaxLen == 5

\* tool invocations the widget makes
MaxTools == 3

\* thread changes of the widget
MaxThreadChanges == 1

\* resets of the chat
MaxResets == 1

\* calls of getClientSecret the widget makes
MaxSessions == 2

-----------------------------------------------------------------------------
(* JavaScript values and strings *)

Undefined == [t |-> "undefined", v |-> <<>>]

Null == [t |-> "null", v |-> <<>>]

JStr(s) == [t |-> "string", v |-> s]

JNum(s) == [t |-> "number", v |-> s]

\* ToBoolean: undefined, null, "" and 0 are falsy
Truthy(x) ==
    CASE x.t = "string" -> x.v # <<>>
      [] x.t = "number" -> x.v # <<"0">>
      [] OTHER -> FALSE

\* the characters /\s/ and String.prototype.trim treat as white space
WhiteSpace == {" ", "\t"}

RECURSIVE trimStart(_)
trimStart(s) ==
    IF s # <<>> /\ Head(s) \in WhiteSpace THEN trimStart(Tail(s)) ELSE s

RECURSIVE trimEnd(_)
trimEnd(s) ==
    IF s # <<>> /\ s[Len(s)] \in WhiteSpace
    THEN trimEnd(SubSeq(s, 1, Len(s) - 1))
    ELSE s

\* String.prototype.trim
trim(s) == trimEnd(trimStart(s))

\* String.prototype.split(/\s+/): every maximal run of white space is one
\* separator; a separator at either end leaves an empty string there, and
\* the empty string splits into one empty string
RECURSIVE splitFrom(_, _)
splitFrom(s, cur) ==
    IF s = <<>> THEN <<cur>>
    ELSE IF Head(s) \in WhiteSpace
         THEN <<cur>> \o splitFrom(trimStart(s), <<>>)
         ELSE splitFrom(Tail(s), Append(cur, Head(s)))

splitWhiteSpace(s) == splitFrom(s, <<>>)

\* Array.prototype.join(" ")
RECURSIVE joinSpace(_)
joinSpace(parts) ==
    IF parts = <<>> THEN <<>>
    ELSE IF Len(parts) = 1 THEN parts[1]
         ELSE parts[1] \o <<" ">> \o joinSpace(Tail(parts))

-----------------------------------------------------------------------------
(* route.ts: splitName *)

\* splitName without the trim of line 25
splitNameNoTrim(fullName) ==
    IF ~Truthy(fullName)
    THEN [threw |-> FALSE, firstName |-> Undefined, lastName |-> Undefined]
    ELSE IF fullName.t # "string"
    THEN [threw |-> TRUE, firstName |-> Undefined, lastName |-> Undefined]
    ELSE LET parts == splitWhiteSpace(fullName.v)
         IN  IF Len(parts) = 1
             THEN [threw |-> FALSE, firstName |-> JStr(parts[1]),
                   lastName |-> Undefined]
             ELSE [threw |-> FALSE,
                   firstName |-> JStr(joinSpace(SubSeq(parts, 1, Len(parts) - 1))),
                   lastName |-> JStr(parts[Len(parts)])]

\* A call either returns an object, whose absent keys read undefined, or
\* throws: .trim is no function of a truthy value that is no string.
splitName(fullName) ==
    IF ~Truthy(fullName)
    THEN [threw |-> FALSE, firstName |-> Undefined, lastName |-> Undefined]
    ELSE IF fullName.t # "string"
    THEN [threw |-> TRUE, firstName |-> Undefined, lastName |-> Undefined]
    ELSE LET parts == splitWhiteSpace(trim(fullName.v))
         IN  IF Len(parts) = 1
             THEN [threw |-> FALSE, firstName |-> JStr(parts[1]),
                   lastName |-> Undefined]
             ELSE [threw |-> FALSE,
                   firstName |-> JStr(joinSpace(SubSeq(parts, 1, Len(parts) - 1))),
                   lastName |-> JStr(parts[Len(parts)])]

-----------------------------------------------------------------------------
(* route.ts: the ticket id, Math.random().toString(36).substring(2, 10)     *)
(* .toUpperCase().  A value of Math.random() is given by the digits of its  *)
(* base-36 fraction, as Number.prototype.toString(36) prints them: none for *)
(* 0, and no trailing zero.                                                 *)

Base36Lower ==
    <<"0", "1", "2", "3", "4", "5", "6", "7", "8", "9", "a", "b", "c", "d",
      "e", "f", "g", "h", "i", "j", "k", "l", "m", "n", "o", "p", "q", "r",
      "s", "t", "u", "v", "w", "x", "y", "z">>

Base36Upper ==
    <<"0", "1", "2", "3", "4", "5", "6", "7", "8", "9", "A", "B", "C", "D",
      "E", "F", "G", "H", "I", "J", "K", "L", "M", "N", "O", "P", "Q", "R",
      "S", "T", "U", "V", "W", "X", "Y", "Z">>

\* Number.prototype.toString(36) of a number in [0, 1)
toString36(frac) ==
    IF frac = <<>> THEN <<"0">>
    ELSE <<"0", ".">> \o [i \in 1..Len(frac) |-> Base36Lower[frac[i] + 1]]

\* String.prototype.substring(start, end), 0 <= start <= end
substring(s, start, end) ==
    SubSeq(s, start + 1, IF end < Len(s) THEN end ELSE Len(s))

toUpperChar(c) ==
    IF \E i \in 1..36 : Base36Lower[i] = c
    THEN Base36Upper[CHOOSE i \in 1..36 : Base36Lower[i] = c]
    ELSE c

\* String.prototype.toUpperCase
toUpperCase(s) == [i \in 1..Len(s) |-> toUpperChar(s[i])]

ticketIdOf(frac) == toUpperCase(substring(toString36(frac), 2, 10))

\* values Math.random() can return: 0, 0.5 (printed "0.i"), and fractions
\* of seven, eight and eleven base-36 digits
RandomSamples ==
    { <<>>,
      <<18>>,
      <<10, 35, 3, 7, 0, 22, 9>>,
      <<1, 0, 35, 12, 29, 4, 17, 8>>,
      <<33, 2, 14, 0, 9, 27, 5, 19, 11, 30, 6>> }

-----------------------------------------------------------------------------
(* route.ts: the notification text *)

\* `${x || placeholder}` in a template literal
orPlaceholder(x, placeholder) == IF Truthy(x) THEN x.v ELSE placeholder

labelOf(body) ==
    IF body.type = JStr(<<"progressive_profile">>)
    THEN <<"Progressive Profile Update">>
    ELSE <<"New Human Handoff Request">>

\* The slots of the template, in its order.  The template ends with the
\* transcript and a line break, and the whole is trimmed.
formatText(body, ticketId) ==
    [label |-> labelOf(body),
     ticketId |-> ticketId,
     name |-> orPlaceholder(body.name, <<"N/A">>),
     email |-> orPlaceholder(body.email, <<"N/A">>),
     phone |-> orPlaceholder(body.phone, <<"N/A">>),
     company |-> orPlaceholder(body.company, <<"N/A">>),
     message |-> orPlaceholder(body.message, <<"_No message provided_">>),
     transcript |->
         trimEnd(orPlaceholder(body.transcript, <<"_No transcript provided_">>))]

NoText ==
    [label |-> <<>>, ticketId |-> <<>>, name |-> <<>>, email |-> <<>>,
     phone |-> <<>>, company |-> <<>>, message |-> <<>>, transcript |-> <<>>]

-----------------------------------------------------------------------------
(* route.ts: syncLeadToSharpSpring, up to its first call of the CRM *)

NoFields ==
    [id |-> Undefined, emailAddress |-> Undefined, firstName |-> Undefined,
     lastName |-> Undefined, companyName |-> Undefined,
     phoneNumber |-> Undefined, description |-> Undefined]

\* x.trim() where x is not nullish: a TypeError unless x is a string
trimThrows(x) == x.t # "string"

\* the field set to the input as it came
untrimmedOrAbsent(x) ==
    IF Truthy(x) /\ x.t = "string" /\ trim(x.v) # <<>>
    THEN JStr(x.v)
    ELSE Undefined

\* `if (x && x.trim()) fields.k = x.trim()`
trimmedOrAbsent(x) ==
    IF Truthy(x) /\ x.t = "string" /\ trim(x.v) # <<>>
    THEN JStr(trim(x.v))
    ELSE Undefined

\* lines 102-126: "noEmail" (return false), "threw" (a TypeError escapes) or
\* "ok" with the field map
prepareLead(body) ==
    IF body.email.t \in {"undefined", "null"}
    THEN [outcome |-> "noEmail", leadFields |-> NoFields]
    ELSE IF trimThrows(body.email)
    THEN [outcome |-> "threw", leadFields |-> NoFields]
    ELSE IF trim(body.email.v) = <<>>
    THEN [outcome |-> "noEmail", leadFields |-> NoFields]
    ELSE LET name == splitName(IF body.name.t = "null" THEN Undefined
                               ELSE body.name)
         IN  IF \/ name.threw
                \/ \E x \in {body.company, body.phone, body.message} :
                      Truthy(x) /\ trimThrows(x)
             THEN [outcome |-> "threw", leadFields |-> NoFields]
             ELSE [outcome |-> "ok",
                   leadFields |->
                       [id |-> Undefined,
                        emailAddress |-> JStr(trim(body.email.v)),
                        firstName |-> IF Truthy(name.firstName)
                                      THEN name.firstName ELSE Undefined,
                        lastName |-> IF Truthy(name.lastName)
                                     THEN name.lastName ELSE Undefined,
                        companyName |-> trimmedOrAbsent(body.company),
                        phoneNumber |-> trimmedOrAbsent(body.phone),
                        description |-> trimmedOrAbsent(body.message)]]

-----------------------------------------------------------------------------
(* route.ts: what the CRM answers, and what callSharpSpring makes of it *)

NoResult == [t |-> "undefined", lead |-> [t |-> "undefined", items |-> <<>>]]

JsonNull == [t |-> "null", error |-> FALSE, result |-> NoResult]

\* result: {lead: [...]}
LeadsResult(items) ==
    [t |-> "object", lead |-> [t |-> "array", items |-> items]]

JsonResult(result) == [t |-> "object", error |-> FALSE, result |-> result]

Lead(id) == [t |-> "object", id |-> id]

\* A reply: the fetch rejects ("fail") or resolves with a body that is
\* empty, not JSON ("garbage") or JSON.
NetworkError == [net |-> "fail", text |-> "empty", json |-> JsonNull]

EmptyBody == [net |-> "ok", text |-> "empty", json |-> JsonNull]

GarbageBody == [net |-> "ok", text |-> "garbage", json |-> JsonNull]

JsonBody(json) == [net |-> "ok", text |-> "json", json |-> json]

ApiError ==
    JsonBody([t |-> "object", error |-> TRUE, result |-> NoResult])

\* what getLeads may answer
GetLeadsReplies ==
    { NetworkError, EmptyBody, GarbageBody, ApiError,
      JsonBody(JsonNull),
      JsonBody(JsonResult(LeadsResult(<<>>))),
      JsonBody(JsonResult(LeadsResult(<<Lead(JStr(<<"7">>))>>))),
      JsonBody(JsonResult(LeadsResult(<<Lead(JNum(<<"0">>)), Lead(JStr(<<"8">>))>>))),
      JsonBody(JsonResult(LeadsResult(<<Lead(JStr(<<>>))>>))),
      JsonBody(JsonResult(LeadsResult(<<Lead(Undefined)>>))),
      JsonBody(JsonResult(LeadsResult(<<[t |-> "null", id |-> Undefined]>>))),
      JsonBody(JsonResult([t |-> "object",
                           lead |-> [t |-> "object", items |-> <<>>]])) }

\* what createLeads and updateLeads may answer
WriteReplies ==
    { NetworkError, GarbageBody, ApiError,
      JsonBody(JsonResult([t |-> "object",
                           lead |-> [t |-> "undefined", items |-> <<>>]])),
      JsonBody(JsonResult([t |-> "falsy",
                           lead |-> [t |-> "undefined", items |-> <<>>]])) }

\* lines 66-92: the value callSharpSpring returns once the fetch settles
sharpSpringJson(reply) ==
    IF reply.net = "fail" \/ reply.text # "json" THEN JsonNull ELSE reply.json

\* `resp?.result`
resultOf(json) == IF json.t = "object" THEN json.result ELSE NoResult

\* `if (resp?.result)`
hasResult(json) == resultOf(json).t \in {"object", "scalar"}

\* lines 136-143: the first lead of the lookup, if any
existingLeadOf(getResponse) ==
    LET result == resultOf(getResponse)
        lead == IF result.t \in {"object"} THEN result.lead
                ELSE [t |-> "undefined", items |-> <<>>]
    IN  IF lead.t = "array" /\ Len(lead.items) > 0
        THEN lead.items[1]
        ELSE [t |-> "undefined", id |-> Undefined]

\* lines 146-151: String(id) of a lead whose id is a string or a number
leadIdOf(getResponse) ==
    LET existingLead == existingLeadOf(getResponse)
    IN  IF existingLead.t = "object" /\ existingLead.id.t \in {"string", "number"}
        THEN JStr(existingLead.id.v)
        ELSE Null

-----------------------------------------------------------------------------
(* route.ts: POST, one step per await that waits for the network *)

NoResponse ==
    [status |-> 0,
     headers |-> [n \in {} |-> ""],
     body |-> [keys |-> {}, ok |-> FALSE, ticketId |-> <<>>, slackTs |-> Null,
               crmSynced |-> FALSE, error |-> ""]]

\* NextResponse.json(body, init): the only header is the content type
jsonResponse(status, body) ==
    [status |-> status,
     headers |-> [n \in {"content-type"} |-> "application/json"],
     body |-> body]

errorResponse(message) ==
    jsonResponse(500, [NoResponse.body EXCEPT !.keys = {"error"},
                                               !.error = message])

okResponse(ticketId, slackTs, crmSynced) ==
    jsonResponse(200, [keys |-> {"ok", "ticketId", "slackTs", "crmSynced"},
                       ok |-> TRUE, ticketId |-> ticketId, slackTs |-> slackTs,
                       crmSynced |-> crmSynced, error |-> ""])

NoBody ==
    [type |-> Undefined, name |-> Undefined, email |-> Undefined,
     phone |-> Undefined, company |-> Undefined, message |-> Undefined,
     transcript |-> Undefined]

NoSlackReply == [net |-> "none", status |-> 0, json |-> "invalid", ts |-> Undefined]

NoReply == [net |-> "none", text |-> "empty", json |-> JsonNull]

\* a handler that has not been entered
Idle ==
    [pc |-> "idle",
     origin |-> "",
     req |-> [json |-> "invalid", body |-> NoBody],
     random |-> <<>>,
     ticketId |-> <<>>,
     slackPosts |-> <<>>,
     slackReply |-> NoSlackReply,
     slackTs |-> Null,
     leadFields |-> NoFields,
     crmCalls |-> <<>>,
     getReply |-> NoReply,
     writeReply |-> NoReply,
     response |-> NoResponse]

\* POST without the try and catch of lines 201 and 262: the promise of POST
\* rejects and no response is made
rejected(rec) == [rec EXCEPT !.pc = "done"]

\* the catch of line 262
caught(rec) ==
    [rec EXCEPT !.pc = "done",
                !.response = errorResponse("Failed to send handoff")]

respond(rec, response) == [rec EXCEPT !.pc = "done", !.response = response]

\* callSharpSpring, lines 43-71: without both credentials nothing is sent
credentialsSet(e) == e.SHARPSPRING_ACCOUNT_ID /\ e.SHARPSPRING_SECRET_KEY

sharpSpringCall(e, method, params, requestId) ==
    [method |-> method, params |-> params, requestId |-> requestId,
     posted |-> credentialsSet(e)]

getLeadsParams(email) ==
    [where |-> email, limit |-> 1, offset |-> 0, objects |-> <<>>]

writeParams(fields) ==
    [where |-> Undefined, limit |-> 0, offset |-> 0, objects |-> <<fields>>]

\* lines 145-192, from the lookup's answer to the call that writes
writeCall(e, leadFields, getResponse) ==
    LET id == leadIdOf(getResponse)
    IN  IF Truthy(id)
        THEN sharpSpringCall(e, "updateLeads",
                 writeParams([leadFields EXCEPT !.id = id]), "updateLead")
        ELSE sharpSpringCall(e, "createLeads", writeParams(leadFields),
                 "createLead")

\* POST without the configuration check of lines 204-210
startPOSTUnchecked(rec, e, frac) ==
    IF rec.req.json = "invalid" THEN caught(rec)
    ELSE LET ticketId == ticketIdOf(frac)
             drawn == [rec EXCEPT !.random = frac, !.ticketId = ticketId]
         IN  IF rec.req.json = "null" THEN caught(drawn)
             ELSE [drawn EXCEPT
                      !.pc = "awaitSlack",
                      !.slackPosts = Append(@, formatText(rec.req.body, ticketId))]

\* lines 202-239: the body is parsed, the configuration checked, the ticket
\* drawn, the text formatted and the webhook called
startPOST(rec, e, frac) ==
    IF rec.req.json = "invalid" THEN caught(rec)
    ELSE IF ~e.SLACK_WEBHOOK_URL
    THEN respond(rec, errorResponse("Missing SLACK_WEBHOOK_URL env variable"))
    ELSE LET ticketId == ticketIdOf(frac)
             drawn == [rec EXCEPT !.random = frac, !.ticketId = ticketId]
         IN  IF rec.req.json = "null" THEN caught(drawn)
             ELSE [drawn EXCEPT
                      !.pc = "awaitSlack",
                      !.slackPosts = Append(@, formatText(rec.req.body, ticketId))]

\* lines 241-251
slackTsOf(reply) ==
    IF reply.json = "object" /\ reply.ts.t = "string" THEN reply.ts ELSE Null

\* lines 235-261 and 101-134 with the lookup called however the webhook
\* call settled
slackSettlesThenLookup(rec, e, reply) ==
    LET lead == prepareLead(rec.req.body)
    IN  [rec EXCEPT !.slackReply = reply,
                    !.pc = "awaitGetLeads",
                    !.leadFields = lead.leadFields,
                    !.crmCalls = <<sharpSpringCall(e, "getLeads",
                                       getLeadsParams(lead.leadFields.emailAddress),
                                       "getLeadByEmail")>>]

\* lines 235-261 and 101-134: the webhook call settles; the lead is prepared
\* and looked up
slackSettles(rec, e, reply) ==
    IF reply.net = "fail" THEN caught([rec EXCEPT !.slackReply = reply])
    ELSE LET slackTs == slackTsOf(reply)
             lead == prepareLead(rec.req.body)
             seen == [rec EXCEPT !.slackReply = reply, !.slackTs = slackTs]
             getLeads == sharpSpringCall(e, "getLeads",
                             getLeadsParams(lead.leadFields.emailAddress),
                             "getLeadByEmail")
         IN  CASE lead.outcome = "threw" -> caught(seen)
               [] lead.outcome = "noEmail" ->
                    respond(seen, okResponse(rec.ticketId, slackTs, FALSE))
               [] lead.outcome = "ok" /\ credentialsSet(e) ->
                    [seen EXCEPT !.pc = "awaitGetLeads",
                                 !.leadFields = lead.leadFields,
                                 !.crmCalls = <<getLeads>>]
               [] OTHER ->
                    \* both calls return null at once: nothing found, and
                    \* nothing created
                    respond([seen EXCEPT
                                !.leadFields = lead.leadFields,
                                !.crmCalls = <<getLeads,
                                    writeCall(e, lead.leadFields, JsonNull)>>],
                            okResponse(rec.ticketId, slackTs, FALSE))

\* lines 130-186: the lookup settles and the write is called
getLeadsSettles(rec, e, reply) ==
    [rec EXCEPT
        !.pc = "awaitWrite",
        !.getReply = reply,
        !.crmCalls = Append(@, writeCall(e, rec.leadFields,
                                         sharpSpringJson(reply)))]

\* lines 166-192 and 254-261: the write settles and the request is answered
writeSettles(rec, reply) ==
    respond([rec EXCEPT !.writeReply = reply],
            okResponse(rec.ticketId, rec.slackTs,
                       hasResult(sharpSpringJson(reply))))

-----------------------------------------------------------------------------
(* ChatKitPanel.tsx: the component's state *)

\* lines 62-67
createInitialErrors ==
    [script |-> Null, session |-> Null, integration |-> Null, retryable |-> FALSE]

\* lines 75-82: the state of a panel that has just mounted, in a window where
\* the widget's custom element is defined or not
mountedPanel(customElement) ==
    [processedFacts |-> {},
     errors |-> createInitialErrors,
     isInitializingSession |-> TRUE,
     isMounted |-> TRUE,
     scriptStatus |-> IF customElement THEN "ready" ELSE "pending",
     widgetInstanceKey |-> 0,
     timeoutId |-> FALSE,
     customElement |-> customElement]

NoTools == <<>>

\* line 10: a workflow id is a string; "wf_replace" stands for the characters
\* the placeholder of the configuration starts with
ConfiguredWorkflow == <<"wf_", "1">>

NoHost ==
    [widgetActions |-> <<>>, themeRequests |-> <<>>, fetches |-> <<>>,
     WORKFLOW_ID |-> ConfiguredWorkflow, chatkitScript |-> "loading",
     thread |-> 0]

NoSessions == <<>>

NoExtract ==
    [payload |-> Undefined, fallback |-> <<>>, called |-> FALSE, result |-> <<>>]

\* lines 156-163, without the clear of line 155
handleResetChatKeepsFacts(p) ==
    [p EXCEPT !.scriptStatus = IF p.customElement THEN "ready" ELSE "pending",
              !.errors = createInitialErrors,
              !.isInitializingSession = TRUE,
              !.widgetInstanceKey = @ + 1]

\* lines 154-164
handleResetChat(p) ==
    [p EXCEPT !.processedFacts = {},
              !.scriptStatus = IF p.customElement THEN "ready" ELSE "pending",
              !.errors = createInitialErrors,
              !.isInitializingSession = TRUE,
              !.widgetInstanceKey = @ + 1]

\* lines 141-142 without the test for the placeholder
isWorkflowSet(workflowId) == workflowId # <<>>

\* lines 141-142
isWorkflowConfigured(workflowId) ==
    workflowId # <<>> /\ Head(workflowId) # "wf_replace"

\* line 85 with updates {session, retryable: false} that mark the error
\* retryable
sessionErrorRetryable(p, message) ==
    [p EXCEPT !.errors = [@ EXCEPT !.session = message, !.retryable = TRUE]]

\* line 85 with the updates {session: message, retryable: false} of lines
\* 146-149, 171 and 217
sessionError(p, message) ==
    [p EXCEPT !.errors = [@ EXCEPT !.session = message, !.retryable = FALSE]]

\* lines 95-139 as React runs them: when scriptStatus has changed the
\* cleanup clears the timeout and the effect sets a new one if the custom
\* element is not defined and the status is pending
scriptEffect(before, after) ==
    IF after.scriptStatus = before.scriptStatus THEN after
    ELSE [after EXCEPT !.timeoutId =
              ~after.customElement /\ after.scriptStatus = "pending"]

\* the effects of the first render: lines 122-132 set the timeout, lines
\* 144-152 report a workflow that is not configured
mountEffects(p, workflowId) ==
    LET timed == [p EXCEPT !.timeoutId =
                      ~p.customElement /\ p.scriptStatus = "pending"]
    IN  IF ~isWorkflowConfigured(workflowId) /\ timed.isMounted
        THEN [sessionError(timed,
                  JStr(<<"Set NEXT_PUBLIC_CHATKIT_WORKFLOW_ID in your .env.local file.">>))
                EXCEPT !.isInitializingSession = FALSE]
        ELSE timed

\* lines 100-104
handleLoaded(p) ==
    IF ~p.isMounted THEN p
    ELSE [p EXCEPT !.scriptStatus = "ready", !.errors = [@ EXCEPT !.script = Null]]

\* lines 106-117; detail is the message of the event's Error, or Undefined
\* if the event's detail is no Error
handleError(p, detail) ==
    IF ~p.isMounted THEN p
    ELSE [p EXCEPT !.scriptStatus = "error",
                   !.errors = [@ EXCEPT
                       !.script = JStr(<<"Error: ">> \o
                                       (IF detail.t = "string" THEN detail.v
                                        ELSE <<"unknown error">>)),
                       !.retryable = FALSE],
                   !.isInitializingSession = FALSE]

\* lines 88-92 and 134-138: the cleanups of an unmount
unmount(p) == [p EXCEPT !.isMounted = FALSE, !.timeoutId = FALSE]

\* lines 319-321
onResponseStart(p) ==
    [p EXCEPT !.errors = [@ EXCEPT !.integration = Null, !.retryable = FALSE]]

\* lines 326-327
blockingError(p) ==
    IF p.errors.script.t \notin {"null", "undefined"} THEN p.errors.script
    ELSE IF p.errors.session.t \notin {"null", "undefined"} THEN p.errors.session
    ELSE p.errors.integration

\* line 348: the overlay is given handleResetChat as onRetry
retryOffered(p) == Truthy(blockingError(p)) /\ p.errors.retryable

\* `x ? String(x) : ""`
stringOrEmpty(x) == IF Truthy(x) THEN x.v ELSE <<>>

\* text.replace(/\s+/g, " ")
RECURSIVE collapseWhiteSpace(_)
collapseWhiteSpace(s) ==
    IF s = <<>> THEN <<>>
    ELSE IF Head(s) \in WhiteSpace
         THEN <<" ">> \o collapseWhiteSpace(trimStart(s))
         ELSE <<Head(s)>> \o collapseWhiteSpace(Tail(s))

\* record_fact without line 271: the id is never added to the set
recordFactAddsNothing(processedFacts, params) ==
    LET id == stringOrEmpty(params.fact_id)
        text == stringOrEmpty(params.fact_text)
    IN  [processedFacts |-> processedFacts,
         forwards |-> id # <<>> /\ id \notin processedFacts,
         action |-> [type |-> "save", factId |-> id,
                     factText |-> trim(collapseWhiteSpace(text))]]

\* lines 262-277, up to the await: the set of processed facts afterwards, and
\* the action given to onWidgetAction, if any
recordFact(processedFacts, params) ==
    LET id == stringOrEmpty(params.fact_id)
        text == stringOrEmpty(params.fact_text)
    IN  IF id = <<>> \/ id \in processedFacts
        THEN [processedFacts |-> processedFacts,
              forwards |-> FALSE,
              action |-> [type |-> "save", factId |-> id,
                          factText |-> trim(collapseWhiteSpace(text))]]
        ELSE [processedFacts |-> processedFacts \cup {id},
              forwards |-> TRUE,
              action |-> [type |-> "save", factId |-> id,
                          factText |-> trim(collapseWhiteSpace(text))]]

-----------------------------------------------------------------------------
(* The requests and replies the model draws from *)

OriginSamples == {"https://evil.example.com", "https://sub.azence.com"}

NameSamples ==
    { Undefined, JStr(<<" ", "\t">>), JStr(<<"a">>),
      JStr(<<" ", "a", " ", "\t", "b", " ">>),
      JStr(<<"a", " ", "b", " ", "c">>), JNum(<<"5">>) }

EmailSamples ==
    { Undefined, JStr(<<" ">>), JStr(<<" ", "x@y", " ">>), JNum(<<"5">>) }

TextSamples == { Null, JStr(<<"\t", " ">>), JStr(<<" ", "c", " ", "d", " ">>) }

DefaultBody ==
    [type |-> JStr(<<"human_handoff">>), name |-> JStr(<<"a", " ", "b">>),
     email |-> JStr(<<"x@y">>), phone |-> Undefined, company |-> Undefined,
     message |-> Undefined, transcript |-> Undefined]

BodySamples ==
    { [DefaultBody EXCEPT !.name = n, !.email = m] :
          n \in NameSamples, m \in EmailSamples }
    \cup
    { [DefaultBody EXCEPT !.company = c, !.phone = p, !.message = m] :
          c \in TextSamples \cup {JNum(<<"5">>)},
          p \in TextSamples \cup {JNum(<<"5">>)},
          m \in TextSamples }
    \cup
    { [DefaultBody EXCEPT !.type = t, !.transcript = x] :
          t \in {Undefined, JStr(<<"progressive_profile">>)},
          x \in {Undefined, JStr(<<"t", " ">>)} }

\* what req.json() gives: a rejection, null, or an object
RequestSamples ==
    { [json |-> "invalid", body |-> NoBody], [json |-> "null", body |-> NoBody] }
    \cup { [json |-> "object", body |-> b] : b \in BodySamples }

\* what the webhook answers: the fetch rejects, or resolves with a status and
\* a body that is no JSON ("invalid"), or an object with or without ts
SlackReplies ==
    { [net |-> "fail", status |-> 0, json |-> "invalid", ts |-> Undefined] }
    \cup
    { [net |-> "ok", status |-> 200, json |-> j.json, ts |-> j.ts] :
          j \in { [json |-> "invalid", ts |-> Undefined],
                  [json |-> "object", ts |-> Undefined],
                  [json |-> "object", ts |-> JStr(<<"1700000000.000100">>)],
                  [json |-> "object", ts |-> JNum(<<"1700000000.0001">>)] } }
    \cup
    { [net |-> "ok", status |-> st, json |-> "invalid", ts |-> Undefined] :
          st \in {404, 500} }

-----------------------------------------------------------------------------
(* The handoff endpoint *)

\* a request arrives and POST is entered
Receive(r) ==
    /\ h[r].pc = "idle"
    /\ \E o \in OriginSamples, q \in RequestSamples :
          h' = [h EXCEPT ![r] = [Idle EXCEPT !.pc = "parse", !.origin = o,
                                            !.req = q]]
    /\ UNCHANGED <<env, sn, panel, tools, host, sessions, ed>>

StartPOST(r) ==
    /\ h[r].pc = "parse"
    /\ \E frac \in RandomSamples :
          h' = [h EXCEPT ![r] = startPOST(h[r], env, frac)]
    /\ UNCHANGED <<env, sn, panel, tools, host, sessions, ed>>

SlackSettles(r) ==
    /\ h[r].pc = "awaitSlack"
    /\ \E reply \in SlackReplies :
          h' = [h EXCEPT ![r] = slackSettles(h[r], env, reply)]
    /\ UNCHANGED <<env, sn, panel, tools, host, sessions, ed>>

GetLeadsSettles(r) ==
    /\ h[r].pc = "awaitGetLeads"
    /\ \E reply \in GetLeadsReplies :
          h' = [h EXCEPT ![r] = getLeadsSettles(h[r], env, reply)]
    /\ UNCHANGED <<env, sn, panel, tools, host, sessions, ed>>

WriteSettles(r) ==
    /\ h[r].pc = "awaitWrite"
    /\ \E reply \in WriteReplies :
          h' = [h EXCEPT ![r] = writeSettles(h[r], reply)]
    /\ UNCHANGED <<env, sn, panel, tools, host, sessions, ed>>

NoSplit ==
    [arg |-> Undefined, called |-> FALSE,
     result |-> [threw |-> FALSE, firstName |-> Undefined, lastName |-> Undefined]]

EnvSamples ==
    [SLACK_WEBHOOK_URL : BOOLEAN, SHARPSPRING_ACCOUNT_ID : BOOLEAN,
     SHARPSPRING_SECRET_KEY : BOOLEAN]

Init ==
    /\ env \in EnvSamples
    /\ h = [r \in {"r1"} |-> Idle]
    /\ sn = NoSplit
    /\ panel = mountedPanel(FALSE)
    /\ tools = NoTools
    /\ host = NoHost
    /\ sessions = NoSessions
    /\ ed = NoExtract

Next ==
    \/ \E r \in DOMAIN h : Receive(r)
    \/ \E r \in DOMAIN h : StartPOST(r)
    \/ \E r \in DOMAIN h : SlackSettles(r)
    \/ \E r \in DOMAIN h : GetLeadsSettles(r)
    \/ \E r \in DOMAIN h : WriteSettles(r)

Spec == Init /\ [][Next]_vars

-----------------------------------------------------------------------------
(* The handoff endpoint under two requests at a time.  The runtime enters    *)
(* POST once per request and the handlers interleave at their awaits; they   *)
(* share nothing but the CRM, which answers a lookup from the leads it       *)
(* holds and holds a lead once it has answered its createLeads.              *)

\* two requests for one email address, once padded with white space
LeadRequests ==
    { [json |-> "object", body |-> [DefaultBody EXCEPT !.email = m]] :
          m \in { JStr(<<"x@y">>), JStr(<<" ", "x@y", " ">>) } }

\* the createLeads calls of request r that went out
CreateCalls(r) ==
    { h[r].crmCalls[i] : i \in { j \in 1..Len(h[r].crmCalls) :
                                    /\ h[r].crmCalls[j].method = "createLeads"
                                    /\ h[r].crmCalls[j].posted } }

\* the email addresses the CRM holds a lead for: those of the createLeads
\* calls it has answered
crmLeads ==
    { call.params.objects[1].emailAddress :
          call \in UNION { CreateCalls(r) : r \in { q \in DOMAIN h :
                                                      h[q].writeReply # NoReply } } }

\* lines 130-134: what the CRM answers to getLeads where emailAddress = email
lookupReply(email) ==
    IF email \in crmLeads
    THEN JsonBody(JsonResult(LeadsResult(<<Lead(JStr(<<"7">>))>>)))
    ELSE JsonBody(JsonResult(LeadsResult(<<>>)))

\* lines 166-186: what the CRM answers to a write it has applied
writeApplied ==
    JsonBody(JsonResult([t |-> "object",
                         lead |-> [t |-> "undefined", items |-> <<>>]]))

ReceiveLead(r) ==
    /\ h[r].pc = "idle"
    /\ \E q \in LeadRequests :
          h' = [h EXCEPT ![r] = [Idle EXCEPT !.pc = "parse",
                                            !.origin = "https://sub.azence.com",
                                            !.req = q]]
    /\ UNCHANGED <<env, sn, panel, tools, host, sessions, ed>>

\* lines 130-186: the CRM answers the lookup of request r
CrmAnswersLookup(r) ==
    /\ h[r].pc = "awaitGetLeads"
    /\ h' = [h EXCEPT ![r] = getLeadsSettles(h[r], env,
                                 lookupReply(h[r].crmCalls[1].params.where))]
    /\ UNCHANGED <<env, sn, panel, tools, host, sessions, ed>>

\* lines 166-192 and 254-261: the CRM applies and answers the write of
\* request r
CrmAnswersWrite(r) ==
    /\ h[r].pc = "awaitWrite"
    /\ h' = [h EXCEPT ![r] = writeSettles(h[r], writeApplied)]
    /\ UNCHANGED <<env, sn, panel, tools, host, sessions, ed>>

InitConcurrent ==
    /\ env = [SLACK_WEBHOOK_URL |-> TRUE, SHARPSPRING_ACCOUNT_ID |-> TRUE,
              SHARPSPRING_SECRET_KEY |-> TRUE]
    /\ h = [r \in {"r1", "r2"} |-> Idle]
    /\ sn = NoSplit
    /\ panel = mountedPanel(FALSE)
    /\ tools = NoTools
    /\ host = NoHost
    /\ sessions = NoSessions
    /\ ed = NoExtract

NextConcurrent ==
    \/ \E r \in DOMAIN h : ReceiveLead(r)
    \/ \E r \in DOMAIN h : StartPOST(r)
    \/ \E r \in DOMAIN h : SlackSettles(r)
    \/ \E r \in DOMAIN h : CrmAnswersLookup(r)
    \/ \E r \in DOMAIN h : CrmAnswersWrite(r)

SpecConcurrent == InitConcurrent /\ [][NextConcurrent]_vars

-----------------------------------------------------------------------------
(* splitName on its own *)

\* every string of at most n symbols
StringsUpTo(n) == UNION { [1..k -> {"a", "b", " ", "\t"}] : k \in 0..n }

NameArguments ==
    { Undefined, Null, JNum(<<"0">>), JNum(<<"5">>) }
    \cup { JStr(s) : s \in StringsUpTo(MaxLen) }

InitSplitName ==
    /\ env = [SLACK_WEBHOOK_URL |-> TRUE, SHARPSPRING_ACCOUNT_ID |-> TRUE,
              SHARPSPRING_SECRET_KEY |-> TRUE]
    /\ h = [r \in {"r1"} |-> Idle]
    /\ sn \in { [NoSplit EXCEPT !.arg = a] : a \in NameArguments }
    /\ panel = mountedPanel(FALSE)
    /\ tools = NoTools
    /\ host = NoHost
    /\ sessions = NoSessions
    /\ ed = NoExtract

CallSplitName ==
    /\ ~sn.called
    /\ sn' = [sn EXCEPT !.called = TRUE, !.result = splitName(sn.arg)]
    /\ UNCHANGED <<env, h, panel, tools, host, sessions, ed>>

NextSplitName == CallSplitName

SpecSplitName == InitSplitName /\ [][NextSplitName]_vars

-----------------------------------------------------------------------------
(* Properties of the handoff endpoint *)

Answered(r) == h[r].pc = "done"

\* the webhook call was made and its fetch resolved
WebhookCompleted(r) ==
    /\ Len(h[r].slackPosts) = 1
    /\ h[r].slackReply.net = "ok"

\* C1: whenever the webhook URL is configured and the webhook POST has
\* completed, the request is answered 200 with ok: true, whatever became of
\* the CRM sync; only crmSynced tells the CRM's outcome.
C1_CrmNeverFailsTheResponse ==
    \A r \in DOMAIN h :
        Answered(r) /\ env.SLACK_WEBHOOK_URL /\ WebhookCompleted(r) =>
            /\ h[r].response.status = 200
            /\ h[r].response.body.keys = {"ok", "ticketId", "slackTs", "crmSynced"}
            /\ h[r].response.body.ok
            /\ h[r].response.body.ticketId = h[r].ticketId
            /\ h[r].response.body.slackTs = h[r].slackTs

\* Response.ok
isOk(status) == status \in 200..299

\* C2: whenever the webhook POST ends in a network failure or a status that
\* is not 2xx, the request is not answered 200 {ok: true} but with an error.
C2_WebhookFailureFailsTheResponse ==
    \A r \in DOMAIN h :
        /\ Answered(r)
        /\ Len(h[r].slackPosts) = 1
        /\ \/ h[r].slackReply.net = "fail"
           \/ h[r].slackReply.net = "ok" /\ ~isOk(h[r].slackReply.status)
        => /\ ~isOk(h[r].response.status)
           /\ "error" \in h[r].response.body.keys
           /\ "ok" \notin h[r].response.body.keys

NoOutboundCall(r) == h[r].slackPosts = <<>> /\ h[r].crmCalls = <<>>

\* C3 as stated: without a webhook URL every request is answered 500 with
\* {error: "Missing SLACK_WEBHOOK_URL env variable"}, and no webhook POST and
\* no CRM call is made for it.
C3_MissingUrlAsStated ==
    \A r \in DOMAIN h :
        Answered(r) /\ ~env.SLACK_WEBHOOK_URL =>
            /\ h[r].response.status = 500
            /\ h[r].response.body.keys = {"error"}
            /\ h[r].response.body.error = "Missing SLACK_WEBHOOK_URL env variable"
            /\ NoOutboundCall(r)

\* C3, amended: without a webhook URL every request is answered 500 with an
\* error and without any webhook POST or CRM call; the error is "Missing
\* SLACK_WEBHOOK_URL env variable" when the inbound body parses as JSON, and
\* "Failed to send handoff" when it does not, the body being parsed first.
C3_MissingUrl ==
    \A r \in DOMAIN h :
        Answered(r) /\ ~env.SLACK_WEBHOOK_URL =>
            /\ h[r].response.status = 500
            /\ h[r].response.body.keys = {"error"}
            /\ h[r].response.body.error =
                   IF h[r].req.json = "invalid"
                   THEN "Failed to send handoff"
                   ELSE "Missing SLACK_WEBHOOK_URL env variable"
            /\ NoOutboundCall(r)

\* a request with a parsable body was answered while the URL was missing
C3_Witness ==
    \E r \in DOMAIN h :
        /\ Answered(r)
        /\ ~env.SLACK_WEBHOOK_URL
        /\ env.SHARPSPRING_ACCOUNT_ID /\ env.SHARPSPRING_SECRET_KEY
        /\ h[r].req.json = "object"
        /\ Truthy(h[r].req.body.email)
        /\ h[r].response.body.error = "Missing SLACK_WEBHOOK_URL env variable"

\* C4: every response of the endpoint carries an
\* Access-Control-Allow-Origin header.
C4_CorsOnEveryResponse ==
    \A r \in DOMAIN h :
        Answered(r) =>
            "access-control-allow-origin" \in DOMAIN h[r].response.headers

\* the origins of the model that the restrictive policy trusts
TrustedOrigin(o) == o = "https://sub.azence.com"

\* C5: the Access-Control-Allow-Origin header of a response echoes the
\* request's Origin if that origin is trusted (https://sub.azence.com is) and
\* holds another, default value if it is not (https://evil.example.com).
C5_RestrictiveCors ==
    \A r \in DOMAIN h :
        Answered(r) =>
            /\ "access-control-allow-origin" \in DOMAIN h[r].response.headers
            /\ LET allowed == h[r].response.headers["access-control-allow-origin"]
               IN  /\ TrustedOrigin(h[r].origin) => allowed = h[r].origin
                   /\ ~TrustedOrigin(h[r].origin) => allowed # h[r].origin

UpperAlphanumeric == { Base36Upper[i] : i \in 1..36 }

\* C6: a request that passes the configuration check gets a ticket id of
\* exactly 8 characters, each in [0-9A-Z], and the 200 response returns the
\* ticket id that the notification text holds.
C6_TicketId ==
    \A r \in DOMAIN h :
        /\ Len(h[r].slackPosts) = 1 =>
              /\ Len(h[r].ticketId) = 8
              /\ \A i \in 1..Len(h[r].ticketId) :
                    h[r].ticketId[i] \in UpperAlphanumeric
        /\ Answered(r) /\ h[r].response.status = 200 =>
              h[r].response.body.ticketId = h[r].slackPosts[1].ticketId

\* the request carries no email: absent, or nothing but white space
NoEmail(body) ==
    \/ body.email.t \in {"undefined", "null"}
    \/ body.email.t = "string" /\ \A i \in 1..Len(body.email.v) :
                                      body.email.v[i] \in WhiteSpace

\* the lookup answered with a lead that has an id of type string or number
FoundLeadWithId(reply) ==
    /\ reply.net = "ok" /\ reply.text = "json"
    /\ reply.json.t = "object"
    /\ reply.json.result.t = "object"
    /\ reply.json.result.lead.t = "array"
    /\ Len(reply.json.result.lead.items) > 0
    /\ reply.json.result.lead.items[1].t = "object"
    /\ reply.json.result.lead.items[1].id.t \in {"string", "number"}

\* C7: once the webhook has answered, a request without email calls the CRM
\* not at all and reports crmSynced false; any other request calls getLeads
\* once, by its email and with limit 1, and then makes exactly one write:
\* updateLeads with the found lead's id if the lookup gave a lead with a
\* string or number id, createLeads otherwise.  (A call counts as made when
\* callSharpSpring is called, with or without credentials.)
C7_UpsertDecision ==
    \A r \in DOMAIN h :
        Answered(r) /\ WebhookCompleted(r) =>
            LET body == h[r].req.body
                calls == h[r].crmCalls
            IN  IF NoEmail(body)
                THEN /\ calls = <<>>
                     /\ h[r].response.status = 200
                     /\ ~h[r].response.body.crmSynced
                ELSE /\ Len(calls) = 2
                     /\ calls[1].method = "getLeads"
                     /\ calls[1].params.where.t = "string"
                     /\ calls[1].params.limit = 1
                     /\ IF FoundLeadWithId(h[r].getReply)
                        THEN /\ calls[2].method = "updateLeads"
                             /\ calls[2].params.objects[1].id.v =
                                   h[r].getReply.json.result.lead.items[1].id.v
                        ELSE calls[2].method = "createLeads"

\* every field that syncLeadToSharpSpring trims is absent or a string
StringFields(body) ==
    \A x \in {body.email, body.name, body.company, body.phone, body.message} :
        x.t \in {"undefined", "null", "string"}

\* Beside C1: for a body whose fields are strings, a completed webhook POST
\* is always followed by a 200 response, whatever the CRM answers.
C1_HoldsForStringFields ==
    \A r \in DOMAIN h :
        /\ Answered(r) /\ env.SLACK_WEBHOOK_URL /\ WebhookCompleted(r)
        /\ StringFields(h[r].req.body)
        => /\ h[r].response.status = 200
           /\ h[r].response.body.ok

\* the maximal runs of symbols that are no white space, in order
TokenStarts(s) ==
    { i \in 1..Len(s) : s[i] \notin WhiteSpace /\ (i = 1 \/ s[i - 1] \in WhiteSpace) }

TokenEnd(s, i) ==
    CHOOSE j \in i..Len(s) :
        /\ \A k \in i..j : s[k] \notin WhiteSpace
        /\ j = Len(s) \/ s[j + 1] \in WhiteSpace

TokensOf(s) ==
    LET starts == TokenStarts(s)
        nth(k) == CHOOSE i \in starts : Cardinality({ j \in starts : j < i }) = k - 1
    IN  [k \in 1..Cardinality(starts) |-> SubSeq(s, nth(k), TokenEnd(s, nth(k)))]

RECURSIVE JoinedBySpaces(_)
JoinedBySpaces(tokens) ==
    IF Len(tokens) = 1 THEN tokens[1]
    ELSE JoinedBySpaces(SubSeq(tokens, 1, Len(tokens) - 1))
             \o <<" ">> \o tokens[Len(tokens)]

\* a string without the white space at its ends
Trimmed(s) ==
    IF \A i \in 1..Len(s) : s[i] \in WhiteSpace THEN <<>>
    ELSE LET first == CHOOSE i \in 1..Len(s) :
                          s[i] \notin WhiteSpace /\ \A k \in 1..(i - 1) : s[k] \in WhiteSpace
             last == CHOOSE i \in 1..Len(s) :
                          s[i] \notin WhiteSpace /\ \A k \in (i + 1)..Len(s) : s[k] \in WhiteSpace
         IN  SubSeq(s, first, last)

\* Beside C7: for a body whose fields are strings the decision is as C7 says,
\* with one exception: a found lead whose id is the empty string is not
\* updated, a new lead is created.
C7_HoldsForStringFields ==
    \A r \in DOMAIN h :
        Answered(r) /\ WebhookCompleted(r) /\ StringFields(h[r].req.body) =>
            LET calls == h[r].crmCalls
                found == /\ FoundLeadWithId(h[r].getReply)
                         /\ h[r].getReply.json.result.lead.items[1].id.v # <<>>
            IN  IF NoEmail(h[r].req.body)
                THEN calls = <<>> /\ ~h[r].response.body.crmSynced
                ELSE /\ Len(calls) = 2
                     /\ calls[1].method = "getLeads"
                     /\ calls[1].params.where = JStr(Trimmed(h[r].req.body.email.v))
                     /\ calls[1].params.limit = 1
                     /\ IF found
                        THEN /\ calls[2].method = "updateLeads"
                             /\ calls[2].params.objects[1].id.v =
                                   h[r].getReply.json.result.lead.items[1].id.v
                        ELSE calls[2].method = "createLeads"

\* the field a free-text input gives: its trimmed text, or none if that is empty
ExpectedField(x) ==
    IF x.t = "string" /\ Trimmed(x.v) # <<>> THEN JStr(Trimmed(x.v)) ELSE Undefined

NameTokens(body) == IF body.name.t = "string" THEN TokensOf(body.name.v) ELSE <<>>

WriteCalls(r) ==
    { h[r].crmCalls[i] : i \in { j \in 1..Len(h[r].crmCalls) :
                                    h[r].crmCalls[j].method # "getLeads" } }

\* C8: in every createLeads and updateLeads payload, firstName is there iff
\* the name has a token and lastName iff it has two; companyName, phoneNumber
\* and description are there iff company, phone and message are not empty
\* once trimmed, and hold the trimmed input; emailAddress is always there,
\* trimmed; and no field is the empty string.
C8_NoBlankOverwrites ==
    \A r \in DOMAIN h : \A call \in WriteCalls(r) :
        LET body == h[r].req.body
            tokens == NameTokens(body)
            fields == call.params.objects[1]
        IN  /\ Len(call.params.objects) = 1
            /\ fields.emailAddress = JStr(Trimmed(body.email.v))
            /\ fields.firstName =
                   IF Len(tokens) = 0 THEN Undefined
                   ELSE IF Len(tokens) = 1 THEN JStr(tokens[1])
                   ELSE JStr(JoinedBySpaces(SubSeq(tokens, 1, Len(tokens) - 1)))
            /\ fields.lastName =
                   IF Len(tokens) < 2 THEN Undefined ELSE JStr(tokens[Len(tokens)])
            /\ fields.companyName = ExpectedField(body.company)
            /\ fields.phoneNumber = ExpectedField(body.phone)
            /\ fields.description = ExpectedField(body.message)
            /\ \A k \in DOMAIN fields :
                   fields[k] = Undefined \/ (fields[k].t = "string" /\ fields[k].v # <<>>)

\* an update went out whose company was padded and whose phone was blank
C8_Witness ==
    \E r \in DOMAIN h : \E call \in WriteCalls(r) :
        /\ call.method = "updateLeads"
        /\ call.posted
        /\ h[r].req.body.company = JStr(<<" ", "c", " ", "d", " ">>)
        /\ call.params.objects[1].companyName = JStr(<<"c", " ", "d">>)
        /\ h[r].req.body.phone = JStr(<<"\t", " ">>)
        /\ call.params.objects[1].phoneNumber = Undefined
        /\ call.params.objects[1].lastName = JStr(<<"b">>)

-----------------------------------------------------------------------------
(* Properties of splitName *)

Absent == [threw |-> FALSE, firstName |-> Undefined, lastName |-> Undefined]

\* the names C9 speaks of: absent, or a string
IsName(x) == x.t \in {"undefined", "null", "string"}

\* what splitName returns for a name of one token or more
SplitOfTokens(tokens) ==
    IF Len(tokens) = 1
    THEN [threw |-> FALSE, firstName |-> JStr(tokens[1]), lastName |-> Undefined]
    ELSE [threw |-> FALSE,
          firstName |-> JStr(JoinedBySpaces(SubSeq(tokens, 1, Len(tokens) - 1))),
          lastName |-> JStr(tokens[Len(tokens)])]

\* C9 as stated: an absent, empty or token-less name gives {}; one token
\* gives firstName only; two or more give the last token as lastName and the
\* others, joined by single spaces, as firstName, whatever the white space.
C9_SplitNameAsStated ==
    sn.called /\ IsName(sn.arg) =>
        LET tokens == IF sn.arg.t = "string" THEN TokensOf(sn.arg.v) ELSE <<>>
        IN  sn.result = IF Len(tokens) = 0 THEN Absent ELSE SplitOfTokens(tokens)

\* C9, amended: as stated, except that a name that is not empty and holds
\* no token (white space alone) gives {firstName: ""}, not {}.
C9_SplitName ==
    sn.called /\ IsName(sn.arg) =>
        LET tokens == IF sn.arg.t = "string" THEN TokensOf(sn.arg.v) ELSE <<>>
        IN  sn.result =
                IF Len(tokens) > 0 THEN SplitOfTokens(tokens)
                ELSE IF sn.arg.t = "string" /\ sn.arg.v # <<>>
                     THEN [Absent EXCEPT !.firstName = JStr(<<>>)]
                     ELSE Absent

\* a name of two tokens with white space before, between and after them
C9_Witness ==
    /\ sn.called
    /\ sn.arg = JStr(<<" ", "a", "\t", " ", "b">>)
    /\ sn.result.firstName = JStr(<<"a">>)
    /\ sn.result.lastName = JStr(<<"b">>)

-----------------------------------------------------------------------------
(* The widget wrapper *)

\* lines 252, 262, 283 and 315 with any name taken for switch_theme
toolBranchAnyName(name) == "switch_theme"

\* lines 252, 262, 283, 315: the branch of onClientTool an invocation takes
toolBranch(name) ==
    CASE name = "switch_theme" -> "switch_theme"
      [] name = "record_fact" -> "record_fact"
      [] name = "handoff_to_slack" -> "handoff_to_slack"
      [] OTHER -> "none"

\* lines 253-258 with every string accepted as a theme
switchThemeAnyString(params) ==
    IF params.theme.t = "string"
    THEN [success |-> TRUE, themeRequests |-> <<params.theme.v>>]
    ELSE [success |-> FALSE, themeRequests |-> <<>>]

\* lines 253-258: the result, and the calls of onThemeRequest
switchTheme(params) ==
    IF params.theme = JStr(<<"light">>) \/ params.theme = JStr(<<"dark">>)
    THEN [success |-> TRUE, themeRequests |-> <<params.theme.v>>]
    ELSE [success |-> FALSE, themeRequests |-> <<>>]

Acknowledgment ==
    <<"Thanks - your details have been sent to the Azence team. A human will reach out soon.">>

Apology ==
    <<"Something went wrong while connecting you with a human. Please try again.">>

\* lines 296-311 with success read from the body of the response
handoffResultFromBody(reply) ==
    IF reply.net = "ok" /\ reply.body.crmSynced
    THEN [success |-> TRUE, message |-> Acknowledgment]
    ELSE [success |-> FALSE, message |-> Apology]

\* lines 286-312 after the fetch has settled: a rejected fetch and a
\* response that is not ok both end in the catch
handoffResult(reply) ==
    IF reply.net = "ok" /\ isOk(reply.status)
    THEN [success |-> TRUE, message |-> Acknowledgment]
    ELSE [success |-> FALSE, message |-> Apology]

\* line 288
HandoffEndpoint == "https://openai-chatkit-starter-app-sub.vercel.app/api/handoff"

NoHandoffReply ==
    [net |-> "none", status |-> 0, body |-> [ticketId |-> Undefined, crmSynced |-> FALSE]]

\* what the fetch of the handoff endpoint can settle with: a rejection, or a
\* response of the endpoint or of what stands before it
HandoffReplies ==
    { [NoHandoffReply EXCEPT !.net = "failed"] }
    \cup { [net |-> "ok", status |-> 200, body |-> b] :
              b \in { [ticketId |-> JStr(<<"A1B2C3D4">>), crmSynced |-> TRUE],
                      [ticketId |-> Undefined, crmSynced |-> FALSE] } }
    \cup { [net |-> "ok", status |-> st,
            body |-> [ticketId |-> Undefined, crmSynced |-> TRUE]] :
              st \in {204, 500} }

\* the names the widget invokes tools by
ToolNames ==
    {"switch_theme", "record_fact", "handoff_to_slack", "get_weather", "Switch_Theme"}

\* the params of a switch_theme invocation
SwitchThemeParams ==
    { [theme |-> t] : t \in { JStr(<<"light">>), JStr(<<"dark">>), JStr(<<"Dark">>),
                              JStr(<<"light", " ">>), Undefined } }

\* the params of an invocation by another name: they would do for any of the
\* three tools
OtherParams ==
    [DefaultBody EXCEPT !.type = JStr(<<"x">>)] @@
    [theme |-> JStr(<<"dark">>), fact_id |-> JStr(<<"f1">>), fact_text |-> JStr(<<"x">>)]

\* the params of a record_fact invocation: without an id, with a string id,
\* and with a number as id and no text
RecordFactParams ==
    { [fact_id |-> Undefined, fact_text |-> JStr(<<" ", "x", "\t", " ", "y", " ">>)],
      [fact_id |-> JStr(<<"f1">>), fact_text |-> JStr(<<" ", "x", "\t", " ", "y", " ">>)],
      [fact_id |-> JNum(<<"7">>), fact_text |-> Undefined] }

\* the widget calls onClientTool with record_fact: lines 262-280 up to the
\* await of onWidgetAction, or to the return if nothing is forwarded
InvokeRecordFact ==
    /\ panel.isMounted
    /\ Len(tools) < MaxTools
    /\ \E params \in RecordFactParams :
          LET did == recordFact(panel.processedFacts, params)
          IN  /\ panel' = [panel EXCEPT !.processedFacts = did.processedFacts]
              /\ tools' = Append(tools,
                     [name |-> "record_fact", params |-> params,
                      thread |-> host.thread, key |-> panel.widgetInstanceKey,
                      pc |-> IF did.forwards THEN "awaitWidgetAction" ELSE "done",
                      result |-> IF did.forwards THEN "pending" ELSE "success"])
              /\ host' = [host EXCEPT !.widgetActions =
                             IF did.forwards
                             THEN Append(@, [thread |-> host.thread,
                                             key |-> panel.widgetInstanceKey,
                                             action |-> did.action])
                             ELSE @]
    /\ UNCHANGED <<env, h, sn, sessions, ed>>

\* the promise of onWidgetAction settles: lines 273-279.  A rejection leaves
\* the handler through the await.
WidgetActionSettles ==
    /\ \E i \in 1..Len(tools), outcome \in {"success", "rejected"} :
          /\ tools[i].pc = "awaitWidgetAction"
          /\ tools' = [tools EXCEPT ![i].pc = "done", ![i].result = outcome]
    /\ UNCHANGED <<env, h, sn, panel, host, sessions, ed>>

\* line 322: the widget reports another thread
ThreadChange ==
    /\ panel.isMounted
    /\ host.thread < MaxThreadChanges
    /\ panel' = [panel EXCEPT !.processedFacts = {}]
    /\ host' = [host EXCEPT !.thread = @ + 1]
    /\ UNCHANGED <<env, h, sn, tools, sessions, ed>>

\* lines 154-164: handleResetChat is called.  The panel hands it to the
\* error overlay as onRetry (line 348) while errors.retryable holds; here it
\* can be called in any state of the mounted panel.
ResetChat ==
    /\ panel.isMounted
    /\ panel.widgetInstanceKey < MaxResets
    /\ panel' = scriptEffect(panel, handleResetChat(panel))
    /\ UNCHANGED <<env, h, sn, tools, host, sessions, ed>>

-----------------------------------------------------------------------------
(* The script of the widget and the session *)

\* a JSON object as extractErrorDetail and getClientSecret read it: the keys
\* they look at, Undefined where the object has no such key
Object(error, details, message, client_secret) ==
    [t |-> "object", v |-> <<>>, error |-> error, details |-> details,
     message |-> message, client_secret |-> client_secret]

\* {"message": m}
WithMessage(m) == Object(Undefined, Undefined, m, Undefined)

\* {"error": e}
WithError(e) == Object(e, Undefined, Undefined, Undefined)

EmptyObject == Object(Undefined, Undefined, Undefined, Undefined)

\* typeof x === "object" && x !== null
isObject(x) == x.t = "object"

\* lines 355-396 with payload.message looked at first
extractErrorDetailMessageFirst(payload, fallback) ==
    IF ~isObject(payload) THEN fallback
    ELSE IF payload.message.t = "string" THEN payload.message.v
    ELSE IF payload.error.t = "string" THEN payload.error.v
    ELSE IF payload.details.t = "string" THEN payload.details.v
    ELSE fallback

\* lines 355-396
extractErrorDetail(payload, fallback) ==
    IF ~isObject(payload) THEN fallback
    ELSE LET topError == payload.error
             details == payload.details
         IN  IF topError.t = "string" THEN topError.v
             ELSE IF isObject(topError) /\ topError.message.t = "string"
                  THEN topError.message.v
             ELSE IF details.t = "string" THEN details.v
             ELSE IF isObject(details) /\ details.error.t = "string"
                  THEN details.error.v
             ELSE IF /\ isObject(details) /\ isObject(details.error)
                     /\ details.error.message.t = "string"
                  THEN details.error.message.v
             ELSE IF payload.message.t = "string" THEN payload.message.v
             ELSE fallback

\* line 204
statusTextOr(statusText, fallback) ==
    IF statusText # <<>> THEN statusText ELSE fallback

\* lines 191-198: JSON.parse of the text of the response, {} if it throws
parsedOrEmpty(raw) == IF raw.kind = "json" THEN raw.json ELSE EmptyObject

\* what the engine says when a property of null is read
NullPropertyMessage == <<"Cannot read properties of null (reading 'client_secret')">>

returned(value) == [threw |-> FALSE, value |-> value]

threw(message) == [threw |-> TRUE, value |-> message]

\* lines 182-214 with any client_secret of the payload returned
sessionOutcomeUnchecked(reply) ==
    IF reply.net = "failed" THEN threw(reply.error.message)
    ELSE LET data == parsedOrEmpty(reply.raw)
         IN  IF data.t = "object" THEN returned(data.client_secret)
             ELSE threw(NullPropertyMessage)

\* lines 182-216: what the try block ends with once the fetch has settled,
\* and the message the catch makes of what was thrown
sessionOutcome(reply) ==
    IF reply.net = "failed"
    THEN threw(IF reply.error.isError THEN reply.error.message
               ELSE <<"Failed to start session.">>)
    ELSE LET data == parsedOrEmpty(reply.raw)
         IN  IF ~isOk(reply.status)
             THEN threw(extractErrorDetail(data,
                            statusTextOr(reply.statusText, <<"Session error">>)))
             ELSE IF data.t = "null" THEN threw(NullPropertyMessage)
             ELSE IF data.t = "object" /\ data.client_secret.t = "string"
                  THEN returned(data.client_secret)
             ELSE threw(<<"Missing client_secret in response">>)

\* lines 167-179: getClientSecret up to the fetch
getClientSecret(p, workflowId, currentSecret) ==
    IF ~isWorkflowConfigured(workflowId)
    THEN [panel |-> [sessionError(p, JStr(<<"Set NEXT_PUBLIC_CHATKIT_WORKFLOW_ID.">>))
                       EXCEPT !.isInitializingSession = FALSE],
          fetches |-> FALSE,
          outcome |-> threw(<<"Set NEXT_PUBLIC_CHATKIT_WORKFLOW_ID.">>)]
    ELSE [panel |->
              IF p.isMounted
              THEN [p EXCEPT
                      !.isInitializingSession =
                          IF ~Truthy(currentSecret) THEN TRUE ELSE @,
                      !.errors = [@ EXCEPT !.session = Null, !.integration = Null]]
              ELSE p,
          fetches |-> TRUE,
          outcome |-> returned(Undefined)]

\* lines 214-218 without the finally of lines 219-223
sessionSettlesNoFinally(p, currentSecret, reply) ==
    LET outcome == sessionOutcome(reply)
    IN  [panel |-> IF outcome.threw THEN sessionError(p, JStr(outcome.value))
                   ELSE p,
         outcome |-> outcome]

\* lines 214-223: the return, the catch and the finally
sessionSettles(p, currentSecret, reply) ==
    LET outcome == sessionOutcome(reply)
        caughtPanel == IF outcome.threw THEN sessionError(p, JStr(outcome.value))
                       ELSE p
    IN  [panel |-> IF caughtPanel.isMounted /\ ~Truthy(currentSecret)
                   THEN [caughtPanel EXCEPT !.isInitializingSession = FALSE]
                   ELSE caughtPanel,
         outcome |-> outcome]

\* line 10: not set, the placeholder, and a workflow id
WorkflowSamples ==
    { <<>>, <<"wf_replace", "_with_your_workflow_id">>, ConfiguredWorkflow }

\* line 9
CREATE_SESSION_ENDPOINT == "CREATE_SESSION_ENDPOINT"

\* lines 182-189
sessionRequest(workflowId) ==
    [url |-> CREATE_SESSION_ENDPOINT, method |-> "POST",
     body |-> [workflow |-> [id |-> workflowId],
               chatkit_configuration |-> [file_upload |-> [enabled |-> TRUE]]]]

Garbage == [kind |-> "garbage", json |-> Null]

Json(value) == [kind |-> "json", json |-> value]

NoSessionReply ==
    [net |-> "none", error |-> [isError |-> TRUE, message |-> <<>>],
     status |-> 0, statusText |-> <<>>, raw |-> Garbage]

SessionResponse(status, statusText, raw) ==
    [NoSessionReply EXCEPT !.net = "ok", !.status = status,
                           !.statusText = statusText, !.raw = raw]

\* what the fetch of the session endpoint can settle with: a rejection; 200
\* with a secret, with a number as secret, with the empty string as secret,
\* with no JSON and with null; and
\* errors with and without a message, a status text and a body
SessionReplies ==
    { [NoSessionReply EXCEPT !.net = "failed",
                             !.error = [isError |-> TRUE,
                                        message |-> <<"Failed to fetch">>]],
      SessionResponse(200, <<"OK">>,
          Json(Object(Undefined, Undefined, Undefined, JStr(<<"cs_1">>)))),
      SessionResponse(200, <<"OK">>,
          Json(Object(Undefined, Undefined, Undefined, JNum(<<"5">>)))),
      SessionResponse(200, <<"OK">>,
          Json(Object(Undefined, Undefined, Undefined, JStr(<<>>)))),
      SessionResponse(200, <<"OK">>, Garbage),
      SessionResponse(200, <<"OK">>, Json(Null)),
      SessionResponse(500, <<"Internal Server Error">>,
          Json(WithError(WithMessage(JStr(<<"bad workflow">>))))),
      SessionResponse(502, <<"Bad Gateway">>, Garbage),
      SessionResponse(401, <<>>, Json(Null)) }

\* the script of the widget has loaded: the custom element is defined and
\* chatkit-script-loaded is dispatched; lines 100-104 run if the listener is
\* still there
ScriptLoaded ==
    /\ host.chatkitScript = "loading"
    /\ host' = [host EXCEPT !.chatkitScript = "loaded"]
    /\ LET defined == [panel EXCEPT !.customElement = TRUE]
       IN  panel' = IF panel.isMounted
                    THEN scriptEffect(panel, handleLoaded(defined))
                    ELSE defined
    /\ UNCHANGED <<env, h, sn, tools, sessions, ed>>

\* the script has failed to load: chatkit-script-error is dispatched, with
\* an Error as detail or without; lines 106-117
ScriptError ==
    /\ host.chatkitScript = "loading"
    /\ host' = [host EXCEPT !.chatkitScript = "failed"]
    /\ \E detail \in {Undefined, JStr(<<"load failed">>)} :
          panel' = IF panel.isMounted
                   THEN scriptEffect(panel, handleError(panel, detail))
                   ELSE panel
    /\ UNCHANGED <<env, h, sn, tools, sessions, ed>>

\* the timeout of line 123 fires: lines 124-130.  The detail of its event is
\* a string, no Error.
ScriptTimeout ==
    /\ panel.timeoutId
    /\ LET fired == [panel EXCEPT !.timeoutId = FALSE]
       IN  panel' = IF ~panel.customElement
                    THEN scriptEffect(panel, handleError(fired, Undefined))
                    ELSE fired
    /\ UNCHANGED <<env, h, sn, tools, host, sessions, ed>>

\* the widget calls getClientSecret, with null or with a secret it was
\* given before: lines 167-189
CallGetClientSecret ==
    /\ panel.isMounted
    /\ Len(sessions) < MaxSessions
    /\ \E currentSecret \in {Null} \cup
              { sessions[i].outcome.value : i \in
                    { j \in 1..Len(sessions) :
                         sessions[j].pc = "done" /\ ~sessions[j].outcome.threw } } :
          LET did == getClientSecret(panel, host.WORKFLOW_ID, currentSecret)
          IN  /\ panel' = did.panel
              /\ sessions' = Append(sessions,
                     [currentSecret |-> currentSecret,
                      pc |-> IF did.fetches THEN "awaitFetch" ELSE "done",
                      fetches |-> did.fetches,
                      reply |-> NoSessionReply,
                      outcome |-> did.outcome])
              /\ host' = [host EXCEPT !.fetches =
                             IF did.fetches
                             THEN Append(@, sessionRequest(host.WORKFLOW_ID))
                             ELSE @]
    /\ UNCHANGED <<env, h, sn, tools, ed>>

\* the fetch of the session endpoint settles: lines 191-223
SessionSettles ==
    /\ \E i \in 1..Len(sessions), reply \in SessionReplies :
          /\ sessions[i].pc = "awaitFetch"
          /\ LET did == sessionSettles(panel, sessions[i].currentSecret, reply)
             IN  /\ panel' = did.panel
                 /\ sessions' = [sessions EXCEPT ![i].pc = "done",
                                                 ![i].reply = reply,
                                                 ![i].outcome = did.outcome]
    /\ UNCHANGED <<env, h, sn, tools, host, ed>>

\* line 319: the widget starts a response
ResponseStart ==
    /\ panel.isMounted
    /\ panel' = onResponseStart(panel)
    /\ UNCHANGED <<env, h, sn, tools, host, sessions, ed>>

\* the component unmounts
Unmount ==
    /\ panel.isMounted
    /\ panel' = unmount(panel)
    /\ UNCHANGED <<env, h, sn, tools, host, sessions, ed>>

\* one record_fact invocation, of fact f1, for a panel whose dedup set is
\* not empty
RecordOneFact ==
    /\ tools = NoTools
    /\ InvokeRecordFact
    /\ tools'[1].params.fact_id = JStr(<<"f1">>)

\* the widget calls onClientTool with switch_theme: lines 252-259
InvokeSwitchTheme ==
    /\ panel.isMounted
    /\ Len(tools) < MaxTools
    /\ \E name \in ToolNames, params \in SwitchThemeParams :
          /\ toolBranch(name) = "switch_theme"
          /\ LET did == switchTheme(params)
             IN  /\ tools' = Append(tools,
                        [name |-> name, params |-> params,
                         thread |-> host.thread, key |-> panel.widgetInstanceKey,
                         pc |-> "done",
                         result |-> IF did.success THEN "success" ELSE "failure"])
                 /\ host' = [host EXCEPT !.themeRequests = @ \o did.themeRequests]
    /\ UNCHANGED <<env, h, sn, panel, sessions, ed>>

\* the widget calls onClientTool with a name that is none of the three:
\* lines 252, 262, 283 are passed and line 315 returns
InvokeOtherTool ==
    /\ panel.isMounted
    /\ Len(tools) < MaxTools
    /\ \E name \in ToolNames :
          /\ toolBranch(name) = "none"
          /\ tools' = Append(tools,
                 [name |-> name, params |-> OtherParams,
                  thread |-> host.thread, key |-> panel.widgetInstanceKey,
                  pc |-> "done", result |-> "failure"])
    /\ UNCHANGED <<env, h, sn, panel, host, sessions, ed>>

\* the widget calls onClientTool with handoff_to_slack: lines 283-294, up to
\* the await of the fetch.  JSON.stringify leaves out the keys whose value is
\* undefined, which is how a key the params do not have is written here.
InvokeHandoff ==
    /\ panel.isMounted
    /\ Len(tools) < MaxTools
    /\ \E name \in ToolNames, params \in {DefaultBody, [DefaultBody EXCEPT !.email = Undefined]} :
          /\ toolBranch(name) = "handoff_to_slack"
          /\ tools' = Append(tools,
                 [name |-> name, params |-> params,
                  thread |-> host.thread, key |-> panel.widgetInstanceKey,
                  pc |-> "awaitFetch", result |-> "pending",
                  fetch |-> Len(host.fetches) + 1,
                  reply |-> NoHandoffReply, message |-> <<>>])
          /\ host' = [host EXCEPT !.fetches =
                         Append(@, [url |-> HandoffEndpoint, method |-> "POST",
                                    body |-> params])]
    /\ UNCHANGED <<env, h, sn, panel, sessions, ed>>

\* the fetch of the handoff endpoint settles: lines 296-312
HandoffSettles ==
    /\ \E i \in 1..Len(tools), reply \in HandoffReplies :
          /\ tools[i].pc = "awaitFetch"
          /\ LET did == handoffResult(reply)
             IN  tools' = [tools EXCEPT
                     ![i].pc = "done",
                     ![i].reply = reply,
                     ![i].result = IF did.success THEN "success" ELSE "failure",
                     ![i].message = did.message]
    /\ UNCHANGED <<env, h, sn, panel, host, sessions, ed>>

InitPanel ==
    /\ env = [SLACK_WEBHOOK_URL |-> TRUE, SHARPSPRING_ACCOUNT_ID |-> TRUE,
              SHARPSPRING_SECRET_KEY |-> TRUE]
    /\ h = [r \in {"r1"} |-> Idle]
    /\ sn = NoSplit
    /\ \E customElement \in BOOLEAN :
          /\ panel = mountEffects(mountedPanel(customElement), ConfiguredWorkflow)
          /\ host = [NoHost EXCEPT !.chatkitScript =
                         IF customElement THEN "loaded" ELSE "loading"]
    /\ tools = NoTools
    /\ sessions = NoSessions
    /\ ed = NoExtract

NextPanel ==
    \/ InvokeRecordFact
    \/ WidgetActionSettles
    \/ ThreadChange
    \/ ResetChat

SpecPanel == InitPanel /\ [][NextPanel]_vars

\* The tools on their own.  No tool handler reads or writes anything of the
\* panel but processedFacts, so the dispatch is explored without the thread
\* changes and resets.
NextTools ==
    \/ InvokeSwitchTheme
    \/ InvokeRecordFact
    \/ WidgetActionSettles
    \/ InvokeHandoff
    \/ HandoffSettles
    \/ InvokeOtherTool

SpecTools == InitPanel /\ [][NextTools]_vars

\* extractErrorDetail on its own, called as line 202 calls it

\* what payload.error can be
ErrorSamples ==
    { Undefined, Null, JNum(<<"5">>), JStr(<<"e">>),
      WithMessage(JStr(<<"bad workflow">>)), WithMessage(JNum(<<"5">>)) }

\* what payload.details can be
DetailsSamples ==
    { Undefined, Null, JStr(<<"d">>), EmptyObject, WithError(JStr(<<"de">>)),
      WithError(WithMessage(JStr(<<"dem">>))), WithError(WithMessage(Null)) }

\* what payload.message can be
MessageSamples == { Undefined, JNum(<<"5">>), JStr(<<"m">>) }

\* the texts of a response: no JSON, null, and objects
RawSamples ==
    { Garbage, Json(Null) }
    \cup { Json(Object(e, d, m, Undefined)) :
              e \in ErrorSamples, d \in DetailsSamples, m \in MessageSamples }

InitExtract ==
    /\ env = [SLACK_WEBHOOK_URL |-> TRUE, SHARPSPRING_ACCOUNT_ID |-> TRUE,
              SHARPSPRING_SECRET_KEY |-> TRUE]
    /\ h = [r \in {"r1"} |-> Idle]
    /\ sn = NoSplit
    /\ panel = mountedPanel(FALSE)
    /\ tools = NoTools
    /\ host = NoHost
    /\ sessions = NoSessions
    /\ \E raw \in RawSamples, statusText \in {<<>>, <<"Bad Request">>} :
          ed = [NoExtract EXCEPT
                   !.payload = parsedOrEmpty(raw),
                   !.fallback = statusTextOr(statusText, <<"Session error">>)]

CallExtractErrorDetail ==
    /\ ~ed.called
    /\ ed' = [ed EXCEPT !.called = TRUE,
                        !.result = extractErrorDetail(ed.payload, ed.fallback)]
    /\ UNCHANGED <<env, h, sn, panel, tools, host, sessions>>

NextExtract == CallExtractErrorDetail

SpecExtract == InitExtract /\ [][NextExtract]_vars

\* The script and the session of the widget, with one fact at most.  How
\* onWidgetAction settles changes nothing of the panel and is left out.
InitSession ==
    /\ env = [SLACK_WEBHOOK_URL |-> TRUE, SHARPSPRING_ACCOUNT_ID |-> TRUE,
              SHARPSPRING_SECRET_KEY |-> TRUE]
    /\ h = [r \in {"r1"} |-> Idle]
    /\ sn = NoSplit
    /\ \E customElement \in BOOLEAN, workflowId \in WorkflowSamples :
          /\ panel = mountEffects(mountedPanel(customElement), workflowId)
          /\ host = [NoHost EXCEPT !.WORKFLOW_ID = workflowId,
                                   !.chatkitScript =
                                       IF customElement THEN "loaded" ELSE "loading"]
    /\ tools = NoTools
    /\ sessions = NoSessions
    /\ ed = NoExtract

NextSession ==
    \/ ScriptLoaded
    \/ ScriptError
    \/ ScriptTimeout
    \/ CallGetClientSecret
    \/ SessionSettles
    \/ ResponseStart
    \/ ResetChat
    \/ Unmount
    \/ RecordOneFact

SpecSession == InitSession /\ [][NextSession]_vars

-----------------------------------------------------------------------------
(* Properties of the widget wrapper *)

\* the facts forwarded to onWidgetAction in one conversation: a thread of
\* one instance of the widget
Forwarded(thread, key, factId) ==
    { i \in 1..Len(host.widgetActions) :
         /\ host.widgetActions[i].thread = thread
         /\ host.widgetActions[i].key = key
         /\ host.widgetActions[i].action.factId = factId }

\* C10: of the record_fact invocations made in one conversation with one
\* fact id, whether one after another or while an earlier one still awaits
\* its callback, exactly one is forwarded to onWidgetAction; after a thread
\* change or a reset the first invocation with that id is forwarded again.
C10_FactForwardedOncePerThread ==
    \A i \in 1..Len(tools) :
        tools[i].name = "record_fact" /\ Truthy(tools[i].params.fact_id) =>
            Cardinality(Forwarded(tools[i].thread, tools[i].key,
                                  tools[i].params.fact_id.v)) = 1

\* fact f1 was invoked twice in the first thread, the second time while the
\* first callback was pending, and once more after a thread change: it was
\* forwarded once in each thread
C10_Witness ==
    /\ Len(tools) = 3
    /\ \A i \in 1..3 : tools[i].params.fact_id = JStr(<<"f1">>)
    /\ tools[1].thread = 0 /\ tools[1].pc = "awaitWidgetAction"
    /\ tools[2].thread = 0 /\ tools[2].result = "success"
    /\ tools[3].thread = 1
    /\ Len(host.widgetActions) = 2
    /\ host.widgetActions[2].thread = 1

\* C11: every record_fact invocation that has ended reported success,
\* whether the fact was new, a duplicate or had no id, and whether
\* onWidgetAction resolved or rejected; an invocation without a fact id ends
\* at once and hands nothing to onWidgetAction.
C11_RecordFactAlwaysSucceeds ==
    \A i \in 1..Len(tools) :
        tools[i].name = "record_fact" =>
            /\ tools[i].pc = "done" => tools[i].result = "success"
            /\ ~Truthy(tools[i].params.fact_id) =>
                  /\ tools[i].pc = "done"
                  /\ Forwarded(tools[i].thread, tools[i].key, <<>>) = {}

\* Beside C11: the one invocation that does not report success is the one
\* whose onWidgetAction rejected.
C11_HoldsUnlessCallbackRejects ==
    \A i \in 1..Len(tools) :
        tools[i].name = "record_fact" =>
            /\ tools[i].pc = "done" => tools[i].result \in {"success", "rejected"}
            /\ tools[i].result = "rejected" =>
                  Forwarded(tools[i].thread, tools[i].key,
                            stringOrEmpty(tools[i].params.fact_id)) # {}
            /\ ~Truthy(tools[i].params.fact_id) =>
                  /\ tools[i].pc = "done" /\ tools[i].result = "success"
                  /\ Forwarded(tools[i].thread, tools[i].key, <<>>) = {}

\* the themes "light" and "dark", and nothing else
IsTheme(x) == x.t = "string" /\ x.v \in {<<"light">>, <<"dark">>}

\* the step is an invocation of the tool of that name
Invokes(name) ==
    /\ Len(tools') = Len(tools) + 1
    /\ tools'[Len(tools')].name = name

\* C12: a switch_theme invocation succeeds exactly if its theme is "light" or
\* "dark"; onThemeRequest has been called once for each such invocation,
\* with its theme and in the order of the invocations, and for no other; and
\* no switch_theme invocation, valid or not, changes the panel's state.
C12_SwitchTheme ==
    /\ [](LET requested == SelectSeq(tools, LAMBDA t :
                               t.name = "switch_theme" /\ IsTheme(t.params.theme))
          IN  /\ \A i \in 1..Len(tools) :
                    tools[i].name = "switch_theme" =>
                        /\ tools[i].pc = "done"
                        /\ tools[i].result = IF IsTheme(tools[i].params.theme)
                                             THEN "success" ELSE "failure"
              /\ Len(host.themeRequests) = Len(requested)
              /\ \A k \in 1..Len(requested) :
                    host.themeRequests[k] = requested[k].params.theme.v)
    /\ [][Invokes("switch_theme") =>
              /\ panel' = panel
              /\ host'.widgetActions = host.widgetActions
              /\ host'.fetches = host.fetches
              /\ ~IsTheme(tools'[Len(tools')].params.theme) => host' = host]_vars

\* after a fact was recorded, "dark" was requested and granted, and "Dark"
\* was requested and refused
C12_Witness ==
    /\ Len(tools) = 3
    /\ tools[1].name = "record_fact" /\ panel.processedFacts = {<<"f1">>}
    /\ tools[2].name = "switch_theme" /\ tools[2].params.theme = JStr(<<"dark">>)
    /\ tools[2].result = "success"
    /\ tools[3].name = "switch_theme" /\ tools[3].params.theme = JStr(<<"Dark">>)
    /\ tools[3].result = "failure"
    /\ host.themeRequests = << <<"dark">> >>

\* the three names of the spec
Recognized == {"switch_theme", "record_fact", "handoff_to_slack"}

\* C13: an invocation by a name that is none of switch_theme, record_fact
\* and handoff_to_slack ends at once with a failure result, and the step
\* changes nothing else: no callback of the page is called, nothing is
\* fetched, and the panel's state, the dedup set and the errors with it, is
\* as before.
C13_OtherNamesFail ==
    /\ [](\A i \in 1..Len(tools) :
              tools[i].name \notin Recognized =>
                  tools[i].pc = "done" /\ tools[i].result = "failure")
    /\ [][(\E name \in ToolNames \ Recognized : Invokes(name)) =>
              /\ panel' = panel
              /\ host' = host
              /\ sessions' = sessions
              /\ SubSeq(tools', 1, Len(tools)) = tools]_vars

\* get_weather and Switch_Theme were invoked with params that name fact f1
\* and the theme dark, and failed; record_fact then found f1 new
C13_Witness ==
    /\ Len(tools) = 3
    /\ tools[1].name = "get_weather" /\ tools[1].result = "failure"
    /\ tools[2].name = "Switch_Theme" /\ tools[2].result = "failure"
    /\ tools[3].name = "record_fact" /\ tools[3].params.fact_id = JStr(<<"f1">>)
    /\ tools[3].pc = "awaitWidgetAction"
    /\ host.themeRequests = <<>> /\ host.fetches = <<>>
    /\ Len(host.widgetActions) = 1

\* the handoff_to_slack invocations, in order
Handoffs == SelectSeq(tools, LAMBDA t : t.name = "handoff_to_slack")

\* C14: the k-th handoff_to_slack invocation has made the k-th fetch and no
\* other, a POST to the handoff endpoint with the params of the invocation
\* as body; once the fetch has settled the invocation has returned, with
\* success and the acknowledgment exactly if a response came and its status
\* is 2xx, otherwise with failure and the apology, whatever ticketId and
\* crmSynced the response holds.
C14_HandoffTool ==
    /\ Len(host.fetches) = Len(Handoffs)
    /\ \A k \in 1..Len(Handoffs) :
          LET t == Handoffs[k]
              twoHundred == t.reply.net = "ok" /\ t.reply.status \in 200..299
          IN  /\ t.fetch = k
              /\ host.fetches[k] = [url |-> HandoffEndpoint, method |-> "POST",
                                    body |-> t.params]
              /\ t.pc \in {"awaitFetch", "done"}
              /\ t.pc = "awaitFetch" => t.reply = NoHandoffReply
              /\ t.pc = "done" =>
                    /\ t.reply \in HandoffReplies
                    /\ twoHundred => t.result = "success" /\ t.message = Acknowledgment
                    /\ ~twoHundred => t.result = "failure" /\ t.message = Apology

\* three handoffs: one answered 200 without ticketId and with crmSynced
\* false, one answered 500 with crmSynced true, one whose fetch was rejected
C14_Witness ==
    /\ Len(Handoffs) = 3
    /\ Handoffs[1].reply.status = 200 /\ ~Handoffs[1].reply.body.crmSynced
    /\ Handoffs[1].reply.body.ticketId = Undefined
    /\ Handoffs[1].result = "success"
    /\ Handoffs[2].reply.status = 500 /\ Handoffs[2].reply.body.crmSynced
    /\ Handoffs[2].result = "failure"
    /\ Handoffs[3].reply.net = "failed" /\ Handoffs[3].result = "failure"

\* the workflow id is not set or starts as the placeholder does
Unconfigured ==
    \/ host.WORKFLOW_ID = <<>>
    \/ host.WORKFLOW_ID[1] = "wf_replace"

\* the step is a call of getClientSecret
CallsGetClientSecret == Len(sessions') = Len(sessions) + 1

\* the requests made to the session endpoint
SessionRequests ==
    SelectSeq(host.fetches, LAMBDA f : f.url = CREATE_SESSION_ENDPOINT)

\* C15: while the workflow id is not configured, every call of
\* getClientSecret has thrown "Set NEXT_PUBLIC_CHATKIT_WORKFLOW_ID." without
\* awaiting anything, no request has been made to the session endpoint, and
\* the call leaves that message as the session error and the initializing
\* flag false.
C15_FailsFastUnconfigured ==
    /\ [](Unconfigured =>
              /\ SessionRequests = <<>>
              /\ \A i \in 1..Len(sessions) :
                    /\ sessions[i].pc = "done"
                    /\ sessions[i].outcome.threw
                    /\ sessions[i].outcome.value =
                           <<"Set NEXT_PUBLIC_CHATKIT_WORKFLOW_ID.">>)
    /\ [][Unconfigured /\ CallsGetClientSecret =>
              /\ panel'.errors.session = JStr(<<"Set NEXT_PUBLIC_CHATKIT_WORKFLOW_ID.">>)
              /\ ~panel'.isInitializingSession]_vars

\* the workflow id is the placeholder; the chat was reset, which set the
\* initializing flag, and getClientSecret was called after it
C15_Witness ==
    /\ host.WORKFLOW_ID # <<>> /\ host.WORKFLOW_ID[1] = "wf_replace"
    /\ panel.widgetInstanceKey = 1
    /\ Len(sessions) = 1
    /\ sessions[1].outcome.threw
    /\ panel.errors.session = JStr(<<"Set NEXT_PUBLIC_CHATKIT_WORKFLOW_ID.">>)
    /\ ~panel.isInitializingSession

\* x if x is a string, and nothing otherwise
IfString(x) == IF x.t = "string" THEN <<x.v>> ELSE <<>>

\* the value under a key of x, Undefined if x is no object
ErrorOf(x) == IF x.t = "object" THEN x.error ELSE Undefined

MessageOf(x) == IF x.t = "object" THEN x.message ELSE Undefined

DetailsOf(x) == IF x.t = "object" THEN x.details ELSE Undefined

\* the candidates of a payload that are strings, in the order of their
\* precedence
Candidates(payload) ==
    IfString(ErrorOf(payload))
    \o IfString(MessageOf(ErrorOf(payload)))
    \o IfString(DetailsOf(payload))
    \o IfString(ErrorOf(DetailsOf(payload)))
    \o IfString(MessageOf(ErrorOf(DetailsOf(payload))))
    \o IfString(MessageOf(payload))

\* C16: the message made of a response that is not ok is the first of these
\* that is a string: error, error.message, details, details.error,
\* details.error.message, message; and the fallback if none is.  The body
\* {"error": {"message": "bad workflow"}} gives "bad workflow".
C16_ErrorDetailPrecedence ==
    /\ ed.called =>
          ed.result = IF Candidates(ed.payload) = <<>> THEN ed.fallback
                      ELSE Head(Candidates(ed.payload))
    /\ ed.called /\ ed.payload = WithError(WithMessage(JStr(<<"bad workflow">>))) =>
          ed.result = <<"bad workflow">>

\* error.message won over details and message; and with an error that holds
\* no string, the nested details.error.message won over message
C16_Witness ==
    /\ ed.called
    /\ \/ /\ ed.payload = Object(WithMessage(JStr(<<"bad workflow">>)),
                                  JStr(<<"d">>), JStr(<<"m">>), Undefined)
          /\ ed.result = <<"bad workflow">>
       \/ /\ ed.payload = Object(WithMessage(JNum(<<"5">>)),
                                  WithError(WithMessage(JStr(<<"dem">>))),
                                  JStr(<<"m">>), Undefined)
          /\ ed.result = <<"dem">>

\* the response is 2xx and its text is a JSON object whose client_secret is
\* a string
HoldsSecret(reply) ==
    /\ reply.net = "ok" /\ reply.status \in 200..299
    /\ reply.raw.kind = "json" /\ reply.raw.json.t = "object"
    /\ reply.raw.json.client_secret.t = "string"

\* call i of getClientSecret ends in this step
Ends(i) ==
    /\ i \in 1..Len(sessions')
    /\ sessions'[i].pc = "done"
    /\ i \in 1..Len(sessions) => sessions[i].pc = "awaitFetch"

\* C17: a call of getClientSecret that has ended has returned exactly if
\* the session endpoint answered 2xx with a JSON object whose client_secret
\* is a string, and then it has returned that string; in every other case
\* it has thrown, and the step in which it threw left the thrown message as
\* the session error.
C17_SecretOrError ==
    /\ [](\A i \in 1..Len(sessions) :
              sessions[i].pc = "done" =>
                  IF sessions[i].fetches /\ HoldsSecret(sessions[i].reply)
                  THEN /\ ~sessions[i].outcome.threw
                       /\ sessions[i].outcome.value.t = "string"
                       /\ sessions[i].outcome.value =
                              sessions[i].reply.raw.json.client_secret
                  ELSE sessions[i].outcome.threw)
    /\ [][\A i \in 1..Len(sessions') :
              Ends(i) /\ sessions'[i].outcome.threw =>
                  panel'.errors.session = JStr(sessions'[i].outcome.value)]_vars

\* a first call returned the secret cs_1, and the refresh made with it got
\* 200 with a number as client_secret and threw
C17_Witness ==
    /\ Len(sessions) = 2
    /\ sessions[1].currentSecret = Null
    /\ sessions[1].outcome = returned(JStr(<<"cs_1">>))
    /\ sessions[2].currentSecret = JStr(<<"cs_1">>)
    /\ sessions[2].pc = "done"
    /\ sessions[2].reply.status = 200
    /\ sessions[2].reply.raw.kind = "json"
    /\ sessions[2].reply.raw.json.t = "object"
    /\ sessions[2].reply.raw.json.client_secret = JNum(<<"5">>)
    /\ sessions[2].outcome = threw(<<"Missing client_secret in response">>)
    /\ panel.errors.session = JStr(<<"Missing client_secret in response">>)

\* C18: a reset, which is the one step that changes the widget's key, leaves
\* the dedup set empty, the three errors null and retryable false, the
\* initializing flag true, the script status ready if the custom element is
\* defined and pending if not, and the key greater than it was.
C18_ResetPostState ==
    [][panel'.widgetInstanceKey # panel.widgetInstanceKey =>
          /\ panel'.processedFacts = {}
          /\ panel'.errors.script = Null
          /\ panel'.errors.session = Null
          /\ panel'.errors.integration = Null
          /\ panel'.errors.retryable = FALSE
          /\ panel'.isInitializingSession = TRUE
          /\ panel'.scriptStatus = IF panel.customElement THEN "ready" ELSE "pending"
          /\ panel'.widgetInstanceKey > panel.widgetInstanceKey]_vars

\* fact f1 was recorded, the script failed to load and the one call of
\* getClientSecret threw, all of which only a reset undoes: the dedup set is
\* empty, the errors are null and the script is pending again
C18_Witness ==
    /\ panel.widgetInstanceKey = 1
    /\ Len(tools) = 1 /\ tools[1].key = 0 /\ tools[1].pc = "awaitWidgetAction"
    /\ panel.processedFacts = {}
    /\ host.chatkitScript = "failed"
    /\ panel.errors.script = Null /\ panel.scriptStatus = "pending"
    /\ Len(sessions) = 1 /\ sessions[1].pc = "done" /\ sessions[1].outcome.threw
    /\ panel.errors.session = Null
    /\ panel.isInitializingSession

\* C19: once the component has unmounted, no step writes its error state,
\* its initializing flag or its script status: not a getClientSecret call
\* that settles, not the timeout, not an event of the script.
C19_NoWriteAfterUnmount ==
    [][~panel.isMounted =>
          /\ panel'.errors = panel.errors
          /\ panel'.isInitializingSession = panel.isInitializingSession
          /\ panel'.scriptStatus = panel.scriptStatus]_vars

\* Beside C19: after the unmount the timeout is cleared, the initializing
\* flag and the script status are never written, and the one write left is
\* that of the session error by a getClientSecret call that throws.
C19_OnlyTheSessionErrorIsWritten ==
    /\ [](~panel.isMounted => ~panel.timeoutId)
    /\ [][~panel.isMounted =>
              /\ panel'.isInitializingSession = panel.isInitializingSession
              /\ panel'.scriptStatus = panel.scriptStatus
              /\ panel'.errors.script = panel.errors.script
              /\ panel'.errors.integration = panel.errors.integration
              /\ panel'.errors.retryable = panel.errors.retryable
              /\ panel'.errors.session # panel.errors.session =>
                    \E i \in 1..Len(sessions) :
                        /\ Ends(i) /\ sessions'[i].outcome.threw
                        /\ panel'.errors.session = JStr(sessions'[i].outcome.value)]_vars

\* C20: in every state of the panel errors.retryable is false, whatever set
\* a script or session error before, so the overlay is never given
\* handleResetChat as its retry action.
C20_RetryNeverOffered ==
    /\ panel.errors.retryable = FALSE
    /\ ~retryOffered(panel)

\* the script failed to load and a call of getClientSecret failed on the
\* network: the overlay shows the script error, without a retry
C20_Witness ==
    /\ panel.isMounted
    /\ panel.scriptStatus = "error"
    /\ panel.errors.script = JStr(<<"Error: ", "load failed">>)
    /\ panel.errors.session = JStr(<<"Failed to fetch">>)
    /\ blockingError(panel) = panel.errors.script
    /\ ~panel.errors.retryable

\* the step is a reset: nothing else changes the widget's key
IsReset == panel'.widgetInstanceKey # panel.widgetInstanceKey

\* the two messages that report a workflow that is not configured
ConfigurationErrors ==
    { JStr(<<"Set NEXT_PUBLIC_CHATKIT_WORKFLOW_ID in your .env.local file.">>),
      JStr(<<"Set NEXT_PUBLIC_CHATKIT_WORKFLOW_ID.">>) }

\* C21: in a step that is no reset, the script status changes only from
\* pending, to ready or to error; a script error that is set stays as it is
\* and stays the blocking error; and a configuration error that is set
\* stays a configuration error and a blocking error is shown.
C21_ErrorsAreTerminal ==
    [][~IsReset =>
          /\ panel'.scriptStatus # panel.scriptStatus =>
                /\ panel.scriptStatus = "pending"
                /\ panel'.scriptStatus \in {"ready", "error"}
          /\ panel.errors.script # Null =>
                /\ panel'.errors.script = panel.errors.script
                /\ blockingError(panel') = panel.errors.script
          /\ panel.errors.session \in ConfigurationErrors =>
                /\ panel'.errors.session \in ConfigurationErrors
                /\ Truthy(blockingError(panel'))]_vars

\* Beside C21: a configuration error is terminal, and the one step that
\* ends a script error without a reset is a script that loads after all.
C21_HoldsButForALateLoad ==
    [][~IsReset =>
          /\ panel'.scriptStatus # panel.scriptStatus =>
                \/ /\ panel.scriptStatus = "pending"
                   /\ panel'.scriptStatus \in {"ready", "error"}
                \/ /\ panel.scriptStatus = "error" /\ panel'.scriptStatus = "ready"
                   /\ host.chatkitScript = "loading"
                   /\ host'.chatkitScript = "loaded"
          /\ panel.errors.script # Null /\ host'.chatkitScript = host.chatkitScript =>
                /\ panel'.errors.script = panel.errors.script
                /\ blockingError(panel') = panel.errors.script
          /\ panel.errors.session \in ConfigurationErrors =>
                /\ panel'.errors.session \in ConfigurationErrors
                /\ Truthy(blockingError(panel'))]_vars

\* the calls of a request that wait for their answer
InFlight(r) ==
    (IF Len(h[r].slackPosts) > 0 /\ h[r].slackReply = NoSlackReply THEN 1 ELSE 0)
    + (IF /\ Len(h[r].crmCalls) > 0 /\ h[r].crmCalls[1].posted
          /\ h[r].getReply = NoReply THEN 1 ELSE 0)
    + (IF /\ Len(h[r].crmCalls) > 1 /\ h[r].crmCalls[2].posted
          /\ h[r].writeReply = NoReply /\ ~Answered(r) THEN 1 ELSE 0)

\* C22: a request makes at most one webhook POST and at most two CRM calls,
\* getLeads and then createLeads or updateLeads; a CRM call is made only
\* once the webhook POST has resolved, and none if it was rejected; the
\* write is made only once the lookup has its answer; and at no time does
\* more than one call wait for its answer.
C22_SequentialOutboundCalls ==
    \A r \in DOMAIN h :
        LET calls == h[r].crmCalls
        IN  /\ Len(h[r].slackPosts) <= 1
            /\ Len(calls) <= 2
            /\ calls # <<>> =>
                  /\ WebhookCompleted(r)
                  /\ calls[1].method = "getLeads"
            /\ h[r].slackReply.net = "fail" => calls = <<>>
            /\ Len(calls) = 2 =>
                  /\ calls[2].method \in {"createLeads", "updateLeads"}
                  /\ calls[1].posted => h[r].getReply # NoReply
                  /\ calls[1].posted = calls[2].posted
            /\ InFlight(r) <= 1

\* a request that made all three calls, each after the answer of the one
\* before
C22_Witness ==
    \E r \in DOMAIN h :
        /\ Answered(r)
        /\ Len(h[r].slackPosts) = 1 /\ h[r].slackReply.net = "ok"
        /\ Len(h[r].crmCalls) = 2
        /\ h[r].crmCalls[1].posted /\ h[r].crmCalls[2].posted
        /\ h[r].crmCalls[2].method = "updateLeads"
        /\ h[r].getReply # NoReply /\ h[r].writeReply # NoReply
        /\ h[r].response.status = 200 /\ h[r].response.body.crmSynced

\* the thread timestamp of the webhook's answer, if it has one
ThreadTimestamp(reply) ==
    IF reply.json = "object" /\ reply.ts.t \in {"string", "number"}
    THEN reply.ts ELSE Null

\* C23: once the webhook POST has completed, slackTs of a 200 response is the
\* ts of the webhook's answer when that is a string or a number and null
\* otherwise, and a webhook answer whose body is empty or no JSON is
\* followed by a 200 response with slackTs null.
C23_SlackTs ==
    \A r \in DOMAIN h :
        Answered(r) /\ WebhookCompleted(r) =>
            /\ h[r].response.status = 200 =>
                  h[r].response.body.slackTs = ThreadTimestamp(h[r].slackReply)
            /\ h[r].slackReply.json = "invalid" =>
                  /\ h[r].response.status = 200
                  /\ h[r].response.body.slackTs = Null

\* Beside C23: slackTs is the ts of the webhook's answer when that is a
\* string, and null otherwise; and for a body whose fields are strings an
\* empty or non-JSON webhook answer is followed by 200 with slackTs null.
C23_HoldsForStringTs ==
    \A r \in DOMAIN h :
        Answered(r) /\ WebhookCompleted(r) =>
            /\ h[r].response.status = 200 =>
                  h[r].response.body.slackTs =
                      IF h[r].slackReply.ts.t = "number" THEN Null
                      ELSE ThreadTimestamp(h[r].slackReply)
            /\ h[r].slackReply.json = "invalid" /\ StringFields(h[r].req.body) =>
                  /\ h[r].response.status = 200
                  /\ h[r].response.body.slackTs = Null

\* a 200 response to a request whose webhook answered a number as ts
C23_NumberTsAnswered ==
    \E r \in DOMAIN h :
        /\ Answered(r) /\ WebhookCompleted(r)
        /\ h[r].slackReply.ts.t = "number"
        /\ h[r].response.status = 200

\* the positions of POST
Positions == {"idle", "parse", "awaitSlack", "awaitGetLeads", "awaitWrite", "done"}

\* { ok: true, ticketId, slackTs, crmSynced } with status 200
IsOkResponse(response) ==
    /\ response.status = 200
    /\ response.body.keys = {"ok", "ticketId", "slackTs", "crmSynced"}
    /\ response.body.ok
    /\ response.body.slackTs.t \in {"string", "null"}
    /\ response.body.crmSynced \in BOOLEAN

\* { error: <string> } with status 500
IsErrorResponse(response) ==
    /\ response.status = 500
    /\ response.body.keys = {"error"}
    /\ response.body.error \in { "Failed to send handoff",
                                 "Missing SLACK_WEBHOOK_URL env variable" }

\* C24: POST ends with a response for every request, whatever the body, the
\* types of its fields and the outcome of the webhook call: 200 with ok,
\* ticketId, slackTs and crmSynced, or 500 with an error string; and a body
\* that does not parse is answered 500 without any outbound call.
C24_NoExceptionEscapes ==
    \A r \in DOMAIN h :
        /\ h[r].pc \in Positions
        /\ Answered(r) =>
              /\ IsOkResponse(h[r].response) \/ IsErrorResponse(h[r].response)
              /\ h[r].response.headers["content-type"] = "application/json"
        /\ Answered(r) /\ h[r].req.json = "invalid" =>
              /\ IsErrorResponse(h[r].response)
              /\ h[r].slackPosts = <<>>
              /\ h[r].crmCalls = <<>>

\* a request whose email is a number was answered 500 once the webhook had
\* answered
C24_Witness ==
    \E r \in DOMAIN h :
        /\ Answered(r) /\ WebhookCompleted(r)
        /\ h[r].req.body.email = JNum(<<"5">>)
        /\ h[r].crmCalls = <<>>
        /\ IsErrorResponse(h[r].response)
        /\ h[r].response.body.error = "Failed to send handoff"

-----------------------------------------------------------------------------
(* Properties of the handoff endpoint under concurrent requests *)

\* the email addresses createLeads was called for
CreatedEmails == UNION { { call.params.objects[1].emailAddress :
                               call \in CreateCalls(r) } : r \in DOMAIN h }

\* C25: whatever the interleaving of the requests that carry one email
\* address, at most one createLeads call goes out for that address.
C25_AtMostOneCreate ==
    \A email \in CreatedEmails :
        Cardinality({ r \in DOMAIN h :
            \E call \in CreateCalls(r) :
                call.params.objects[1].emailAddress = email }) <= 1

\* Beside C25: a lookup that the CRM answers once it holds a lead for the
\* address is followed by updateLeads, never by createLeads; only lookups
\* answered before the other request's createLeads was applied create.
C25_LookupAfterCreateUpdates ==
    [][\A r \in DOMAIN h :
          /\ h[r].pc = "awaitGetLeads" /\ h'[r].pc = "awaitWrite"
          /\ h[r].crmCalls[1].params.where \in crmLeads
          => /\ h'[r].crmCalls[2].method = "updateLeads"
             /\ h'[r].crmCalls[2].params.objects[1].id = JStr(<<"7">>)]_vars

\* both requests were answered crmSynced: true after each had called
\* createLeads for x@y
C25_TwoCreates ==
    \A r \in DOMAIN h :
        /\ Answered(r)
        /\ h[r].response.status = 200 /\ h[r].response.body.crmSynced
        /\ \E call \in CreateCalls(r) :
              call.params.objects[1].emailAddress = JStr(<<"x@y">>)

-----------------------------------------------------------------------------
(* The loading state of the session *)

\* call i of getClientSecret begins in this step
Begins(i) == i = Len(sessions) + 1 /\ i = Len(sessions')

\* the workflow id is configured
Configured == ~Unconfigured

\* C26 as stated: while the panel is mounted, a call of getClientSecret with
\* null that ends leaves isInitializingSession false, and no step of a call
\* with a credential other than null, under a configured workflow, changes
\* isInitializingSession.
C26_AsStated ==
    [][\A i \in 1..Len(sessions') :
          /\ Ends(i) /\ panel'.isMounted /\ sessions'[i].currentSecret = Null =>
                ~panel'.isInitializingSession
          /\ /\ Begins(i) \/ Ends(i)
             /\ sessions'[i].currentSecret # Null /\ Configured
             => panel'.isInitializingSession = panel.isInitializingSession]_vars

\* C26: while the panel is mounted, a call of getClientSecret with null or
\* with the empty string that ends, by returning or by throwing, leaves
\* isInitializingSession false; such a call that begins under a configured
\* workflow sets it; and no step of a call with a non-empty credential,
\* under a configured workflow, changes isInitializingSession.
C26_LoadingStateClears ==
    [][\A i \in 1..Len(sessions') :
          /\ Ends(i) /\ panel'.isMounted /\ ~Truthy(sessions'[i].currentSecret) =>
                ~panel'.isInitializingSession
          /\ /\ Begins(i) /\ ~Ends(i) /\ panel'.isMounted
             /\ ~Truthy(sessions'[i].currentSecret)
             => panel'.isInitializingSession
          /\ /\ Begins(i) \/ Ends(i)
             /\ Truthy(sessions'[i].currentSecret) /\ Configured
             => panel'.isInitializingSession = panel.isInitializingSession]_vars

\* a first call returned the empty string, and the call that passed it back
\* has thrown on a 502 and left the flag false, the panel still mounted
C26_Witness ==
    /\ panel.isMounted
    /\ Len(sessions) = 2
    /\ sessions[1].currentSecret = Null
    /\ sessions[1].outcome = returned(JStr(<<>>))
    /\ sessions[2].currentSecret = JStr(<<>>)
    /\ sessions[2].pc = "done"
    /\ sessions[2].reply.status = 502
    /\ sessions[2].outcome.threw
    /\ ~panel.isInitializingSession

=============================================================================
